---------------------------- MODULE Spec2Model ----------------------------
(***************************************************************************)
(* A model of the gotc-discord-bot repository: the three bot variants      *)
(* (src/openai/app.py, src/open-source/open-app.py, src/legacy/app.py).    *)
(*                                                                         *)
(* Text is modelled as a sequence of one-character strings, so that        *)
(* slicing, joining, case folding and the URL regular expression act on    *)
(* characters as they do in the source.                                    *)
(*                                                                         *)
(* Specifications:                                                         *)
(*   SpecSplit   split_message and prevent_url_embeds as pure functions    *)
(*   Spec        on_message of the openai variant, its slash commands, and *)
(*               on_message of the open-source and legacy variants         *)
(*   SpecSearch  all_in_one_search                                         *)
(*   SpecTopK    get_top_k_results_text and retrieve of the legacy variant *)
(*   SpecAssets  build_assets_map_s3 of both variants that have it         *)
(*   SpecLoop    the event loop running the handlers of several messages   *)
(***************************************************************************)
EXTENDS Integers, Sequences, FiniteSets, TLC

VARIABLES
    split,      \* SpecSplit: one call of split_message / prevent_url_embeds
    pc,         \* Spec: position of on_message in its body
    msg,        \* Spec: the inbound message being handled
    local,      \* Spec: the local variables of on_message
    sent,       \* Spec: the messages passed to channel.send, in order
    calls,      \* Spec: the external calls made for this message, in order
    handled,    \* Spec: number of inbound messages received so far
    search,     \* SpecSearch: one call of all_in_one_search
    retrieval,  \* SpecTopK: one call of retrieve / get_top_k_results_text
    assets,     \* SpecAssets: one call of build_assets_map_s3
    loop        \* SpecLoop: the event loop and the handlers it runs

vars == <<split, pc, msg, local, sent, calls, handled, search, retrieval, assets,
         loop>>

\* The variables of on_message.
mainVars == <<pc, msg, local, sent, calls, handled>>

(***************************************************************************)
(* Bounds of the model.                                                    *)
(***************************************************************************)
\* Longest text over the plain alphabet handed to split_message.
MaxLen == 4
\* Largest max_length handed to split_message as an explicit argument.
MaxChunk == 3
\* A generated reply is a concatenation of at most this many words.
MaxWords == 2
\* The platform's per-message limit and split_message's default max_length
\* are both 2000 in the source; the model scales the common value down so
\* that replies longer than it can be enumerated.
ScaledLimit == 8

Min(a, b) == IF a < b THEN a ELSE b

NoValue == "NoValue"

(***************************************************************************)
(* Text helpers.                                                           *)
(***************************************************************************)
\* Python's s[a:b] for 0 <= a, on a 1-based sequence.
Slice(s, a, b) == SubSeq(s, a + 1, Min(b, Len(s)))

RECURSIVE Concat(_)
Concat(seqs) ==
    IF seqs = <<>> THEN <<>> ELSE Head(seqs) \o Concat(Tail(seqs))

\* All sequences over alphabet of length at most n.
SeqsUpTo(alphabet, n) == UNION {[1..k -> alphabet] : k \in 0..n}

\* s.startswith(p)
StartsWith(s, p) == Len(s) >= Len(p) /\ SubSeq(s, 1, Len(p)) = p

\* p occurs in s at 1-based position i
OccursAt(s, p, i) ==
    i >= 1 /\ i + Len(p) - 1 <= Len(s) /\ SubSeq(s, i, i + Len(p) - 1) = p

\* p in s
Contains(s, p) == \E i \in 1..(Len(s) + 1) : OccursAt(s, p, i)

\* Python's str.isspace on one character; \S of the re module is its negation.
IsSpace(c) == c \in {" ", "\n", "\t"}

(***************************************************************************)
(* split_message(message, max_length): the list comprehension              *)
(*   [message[i:i + max_length] for i in range(0, len(message), max_length)]*)
(***************************************************************************)
RECURSIVE ChunksFrom(_, _, _)
ChunksFrom(message, i, max_length) ==
    IF i >= Len(message) THEN <<>>
    ELSE <<Slice(message, i, i + max_length)>>
         \o ChunksFrom(message, i + max_length, max_length)

\* A slip in the slice bound: message[i:i + max_length - 1].
RECURSIVE ChunksShort(_, _, _)
ChunksShort(message, i, max_length) ==
    IF i >= Len(message) THEN <<>>
    ELSE <<Slice(message, i, i + max_length - 1)>>
         \o ChunksShort(message, i + max_length, max_length)

split_message_short(message, max_length) == ChunksShort(message, 0, max_length)

split_message(message, max_length) == ChunksFrom(message, 0, max_length)

(***************************************************************************)
(* prevent_url_embeds(text): re.sub(r'(https?://\S+)', r'<\1>', text).     *)
(* The scan goes left to right; at each position the pattern is tried, a   *)
(* match is replaced by <match> and the scan resumes after the match.      *)
(***************************************************************************)
HttpScheme == <<"h", "t", "t", "p", ":", "/", "/">>
HttpsScheme == <<"h", "t", "t", "p", "s", ":", "/", "/">>

\* Length of the scheme part https?:// matched at position i, 0 if none.
SchemeLen(text, i) ==
    IF OccursAt(text, HttpsScheme, i) THEN Len(HttpsScheme)
    ELSE IF OccursAt(text, HttpScheme, i) THEN Len(HttpScheme)
    ELSE 0

\* Length of the greedy \S+ run starting at position i (0 if none).
RECURSIVE NonSpaceRun(_, _)
NonSpaceRun(text, i) ==
    IF i > Len(text) \/ IsSpace(text[i]) THEN 0
    ELSE 1 + NonSpaceRun(text, i + 1)

\* Length of the match of https?://\S+ at position i, 0 if it does not match.
UrlMatchLen(text, i) ==
    LET s == SchemeLen(text, i)
        r == IF s = 0 THEN 0 ELSE NonSpaceRun(text, i + s)
    IN IF s > 0 /\ r > 0 THEN s + r ELSE 0

RECURSIVE WrapFrom(_, _)
WrapFrom(text, i) ==
    IF i > Len(text) THEN <<>>
    ELSE LET n == UrlMatchLen(text, i)
         IN IF n > 0
            THEN <<"<">> \o SubSeq(text, i, i + n - 1) \o <<">">>
                 \o WrapFrom(text, i + n)
            ELSE <<text[i]>> \o WrapFrom(text, i + 1)

prevent_url_embeds(text) == WrapFrom(text, 1)

(***************************************************************************)
(* Texts the model draws from.                                             *)
(***************************************************************************)
PlainAlphabet == {"a", "b"}
PlainTexts == SeqsUpTo(PlainAlphabet, MaxLen)

UrlX == HttpScheme \o <<"x">>
Words == {<<"a">>, <<" ">>, UrlX}

\* What a generation call may return: any concatenation of a few words.
Replies == {Concat(ws) : ws \in SeqsUpTo(Words, MaxWords)}

(***************************************************************************)
(* SpecSplit: split_message and prevent_url_embeds applied to drawn inputs *)
(***************************************************************************)
SplitInputs ==
    [message : PlainTexts \cup Replies, max_length : 1..MaxChunk]
    \cup [message : Replies, max_length : {ScaledLimit}]

InitSplit ==
    /\ split \in [pc : {"call"}, in : SplitInputs,
                  parts : {<<>>}, wrapped : {<<>>}]
    \* the other components are not in use
    /\ loop = NoValue
    /\ pc = NoValue /\ msg = NoValue /\ local = NoValue
    /\ sent = NoValue /\ calls = NoValue /\ handled = NoValue
    /\ search = NoValue
    /\ retrieval = NoValue
    /\ assets = NoValue

\* parts = split_message(message, max_length)
SplitCall ==
    /\ split.pc = "call"
    /\ split' = [split EXCEPT
                    !.pc = "split",
                    !.parts = split_message(split.in.message, split.in.max_length)]
    /\ UNCHANGED <<mainVars, search, retrieval, assets, loop>>

\* [prevent_url_embeds(part) for part in parts]
WrapCall ==
    /\ split.pc = "split"
    /\ split' = [split EXCEPT
                    !.pc = "wrapped",
                    !.wrapped = [k \in 1..Len(split.parts) |->
                                    prevent_url_embeds(split.parts[k])]]
    /\ UNCHANGED <<mainVars, search, retrieval, assets, loop>>


(***************************************************************************)
(* More text helpers, used by on_message and build_assets_map_s3.          *)
(***************************************************************************)
\* str.lower() on one character of the model's alphabet.
LowerChar(c) ==
    CASE c = "A" -> "a"
      [] c = "B" -> "b"
      [] c = "P" -> "p"
      [] c = "N" -> "n"
      [] c = "G" -> "g"
      [] c = "I" -> "i"
      [] c = "F" -> "f"
      [] OTHER -> c

\* s.lower()
Lower(s) == [i \in 1..Len(s) |-> LowerChar(s[i])]

RECURSIVE LStrip(_)
LStrip(s) == IF s # <<>> /\ IsSpace(Head(s)) THEN LStrip(Tail(s)) ELSE s

RECURSIVE RStrip(_)
RStrip(s) ==
    IF s # <<>> /\ IsSpace(s[Len(s)]) THEN RStrip(SubSeq(s, 1, Len(s) - 1))
    ELSE s

\* s.strip()
Strip(s) == RStrip(LStrip(s))

\* s.split(sep) for a one-character separator: empty fields are kept.
RECURSIVE SplitOnFrom(_, _, _)
SplitOnFrom(s, sep, field) ==
    IF s = <<>> THEN <<field>>
    ELSE IF Head(s) = sep
         THEN <<field>> \o SplitOnFrom(Tail(s), sep, <<>>)
         ELSE SplitOnFrom(Tail(s), sep, Append(field, Head(s)))

SplitOn(s, sep) == SplitOnFrom(s, sep, <<>>)

\* s.split(): fields between runs of whitespace, no empty field.
RECURSIVE SplitWordsFrom(_, _)
SplitWordsFrom(s, field) ==
    IF s = <<>> THEN (IF field = <<>> THEN <<>> ELSE <<field>>)
    ELSE IF IsSpace(Head(s))
         THEN (IF field = <<>> THEN <<>> ELSE <<field>>)
              \o SplitWordsFrom(Tail(s), <<>>)
         ELSE SplitWordsFrom(Tail(s), Append(field, Head(s)))

SplitWords(s) == SplitWordsFrom(s, <<>>)

\* sep.join(list)
RECURSIVE Join(_, _)
Join(sep, list) ==
    IF list = <<>> THEN <<>>
    ELSE IF Len(list) = 1 THEN Head(list)
    ELSE Head(list) \o sep \o Join(sep, Tail(list))

\* s.replace(old, new) for a non-empty old
RECURSIVE Replace(_, _, _)
Replace(s, old, new) ==
    IF s = <<>> THEN <<>>
    ELSE IF OccursAt(s, old, 1)
         THEN new \o Replace(SubSeq(s, Len(old) + 1, Len(s)), old, new)
         ELSE <<Head(s)>> \o Replace(Tail(s), old, new)

\* Python's s[:-n] for n > 0
DropLast(s, n) == SubSeq(s, 1, Len(s) - n)

NextSplit ==
    \/ SplitCall
    \/ WrapCall

SpecSplit == InitSplit /\ [][NextSplit]_vars

\* ceil(m / c) for c >= 1
CeilDiv(m, c) == (m + c - 1) \div c

\* C1: split_message(message, max_length = C) on a string of length M, C >= 1,
\* returns exactly ceil(M / C) chunks whose concatenation in order is the
\* original string, every chunk has between 1 and C characters, and for
\* M = 0 the result holds no chunk.
C1_SplitChunks ==
    split.pc \in {"split", "wrapped"} =>
        LET m == Len(split.in.message)
            c == split.in.max_length
        IN /\ Len(split.parts) = CeilDiv(m, c)
           /\ Concat(split.parts) = split.in.message
           /\ \A k \in 1..Len(split.parts) :
                 Len(split.parts[k]) >= 1 /\ Len(split.parts[k]) <= c
           /\ (m = 0 => split.parts = <<>>)

\* A string longer than max_length and not a multiple of it has been split.
C1_Witness ==
    /\ split.pc = "split"
    /\ Len(split.in.message) > split.in.max_length
    /\ Len(split.in.message) % split.in.max_length # 0
    /\ Len(split.parts) >= 2

(***************************************************************************)
(* on_message of the openai variant (src/openai/app.py): data.             *)
(***************************************************************************)
\* Inbound messages delivered to the bot in one behaviour.
MaxMessages == 2

NAME_OF_BOT == <<"t", "u", "r", "t", "y">>

\* The user record of the bot as it appears in message.mentions.
BotUser == [id |-> <<"1">>, display_name |-> NAME_OF_BOT, name |-> NAME_OF_BOT]

\* An attachment, by what the two extension tests of on_message see:
\* attachment.url (line 1318) and attachment.filename (lines 1570, 1759).
Attachments ==
    { <<>>,
      <<[url_is_image |-> TRUE, filename_is_image |-> TRUE]>>,
      <<[url_is_image |-> FALSE, filename_is_image |-> TRUE]>>,
      <<[url_is_image |-> FALSE, filename_is_image |-> FALSE]>> }

BangContents ==
    { <<"!", "h", "e", "l", "p">>, <<"!", "h", "e", "r", "o">>, <<"!", "h", "e", "r", "o", "e", "s">>, <<"!", "c", "a", "l", "e", "n", "d", "a", "r">>, <<"!", "c", "a", "l", "e", "n", "d", "e", "r">>,
      <<"!", "a">>, <<"!", "B", " ", "x">>, <<"!", "z", "z">>, <<"x", "a">>, <<"!">>, <<>> }

ChatContents == { <<"h", "i">>, <<"t", "u", "r", "t", "y", ",", " ", "h", "i">>, <<"t", "u", "r", "t", "y", " ", "h", "i">>, <<"<", "@", "1", ">", " ", "h", "i">> }

Plain(author, content, attachments) ==
    [event |-> "on_message", author |-> author, content |-> content,
     attachments |-> attachments, mentions |-> <<>>, reply_to_bot |-> FALSE]

\* The inbound messages of the model: bang-commands and chat lines, with and
\* without attachments, a mention of the bot, a reply to the bot, and the
\* bot's own messages.
Messages ==
    { Plain("user", c, <<>>) : c \in BangContents }
    \cup { Plain("user", c, a) : c \in ChatContents, a \in Attachments }
    \cup { [Plain("user", <<"h", "i">>, <<>>) EXCEPT !.reply_to_bot = TRUE],
           [Plain("user", <<"h", "i">>, <<>>) EXCEPT !.mentions = <<BotUser>>],
           [Plain("user", <<"<", "@", "1", ">", " ", "h", "i">>, <<>>) EXCEPT !.mentions = <<BotUser>>],
           Plain("bot", <<"t", "u", "r", "t", "y", ",", " ", "h", "i">>, <<>>),
           Plain("bot", <<"!", "h", "e", "l", "p">>, <<>>) }

\* A JSON object is a function from its keys; d.get(key, default):
Get(d, key, default) == IF key \in DOMAIN d THEN d[key] ELSE default

Todos ==
    { "summarize", "gotc", "web_search", "miscellaneous", "translate",
      "translation", "about_chat", "about_me", "analyze_user", "humor",
      "generate_image", "help", "none", "calendar", "image" }

\* What decide_what_to_do may return when it does not raise.
Decisions ==
    { [todo |-> t, language |-> "french"] : t \in Todos }
    \cup { [language |-> "english"], [todo |-> "translate"] }

\* What generate_json_call_for_summarize_function may return.
SummarizeJsons ==
    { [days |-> "1", hours |-> "0", special |-> ""],
      [hours |-> "5", special |-> "rap"],
      [days |-> "soon", hours |-> "0", special |-> ""] }

\* int(s) succeeds; the default 0 of .get("days", 0) is written "0"
IsInt(s) == s \in {"0", "1", "5"}

\* One message passed to channel.send.
Entry(kind, text) == [kind |-> kind, text |-> text]

\* A local JSON object that no statement has assigned yet.
Unbound == [unbound |-> TRUE]

InitLocal ==
    [ content_lower |-> <<>>, alt_content_lower |-> <<>>, image_urls |-> <<>>,
      failures |-> 0, json |-> NoValue, todo |-> NoValue, language |-> NoValue,
      parts |-> <<>>, wrap |-> FALSE, kind |-> NoValue, after |-> NoValue,
      image_name |-> NoValue, reply |-> <<>>, image_outcome |-> NoValue,
      json_call_for_summarize_function |-> Unbound ]

(***************************************************************************)
(* build_assets_map_s3 (src/openai/app.py 1256-1304 and                    *)
(* src/open-source/open-app.py 244-290).                                   *)
(***************************************************************************)
S3_PREFIX == <<"g", "o", "t", "c", "/">>
\* f"https://{S3_BUCKET}.s3.amazonaws.com/{S3_PREFIX}", kept as one piece.
BASE_URL == <<"https://example.s3.amazonaws.com/gotc/">>
VERSION == <<"2">>
PngSuffix == <<".", "p", "n", "g">>

\* s.endswith(p)
EndsWith(s, p) ==
    Len(s) >= Len(p) /\ SubSeq(s, Len(s) - Len(p) + 1, Len(s)) = p

EmptyDict == [k \in {} |-> NoValue]

\* d[k] = v on a dict
DictPut(d, k, v) == [x \in DOMAIN d \cup {k} |-> IF x = k THEN v ELSE d[x]]

\* parts[0][:-4]
StripExtension(file_name) ==
    IF Len(file_name) > 4 THEN DropLast(file_name, 4) ELSE <<>>

\* The body of the for loop of the openai variant for one object key.
AddKey(maps, key) ==
    LET relative_path == Slice(key, Len(S3_PREFIX), Len(key))
        parts == SplitOn(relative_path, "/")
    IN IF Len(parts) = 1
       THEN LET image_name == Lower(StripExtension(parts[1]))
                image_link == BASE_URL \o parts[1] \o <<"?", "v", "=">> \o VERSION
            IN [maps EXCEPT
                   !.name_to_link = DictPut(@, image_name, image_link)]
       ELSE LET dir_name == Lower(parts[1])
                image_link == BASE_URL \o Join(<<"/">>, parts)
                links == IF dir_name \in DOMAIN maps.dir_to_links
                         THEN maps.dir_to_links[dir_name] ELSE <<>>
            IN [maps EXCEPT
                   !.dir_to_links = DictPut(@, dir_name, Append(links, image_link))]

\* The body of the for loop of the open-source variant: keys that do not end
\* in .png are skipped, and the single-image link carries no version.
AddKeyOpen(maps, key) ==
    LET relative_path == Slice(key, Len(S3_PREFIX), Len(key))
        parts == SplitOn(relative_path, "/")
    IN IF ~EndsWith(Lower(key), PngSuffix) THEN maps
       ELSE IF Len(parts) = 1
       THEN LET image_name == Lower(StripExtension(parts[1]))
                image_link == BASE_URL \o parts[1]
            IN [maps EXCEPT
                   !.name_to_link = DictPut(@, image_name, image_link)]
       ELSE LET dir_name == Lower(parts[1])
                image_link == BASE_URL \o Join(<<"/">>, parts)
                links == IF dir_name \in DOMAIN maps.dir_to_links
                         THEN maps.dir_to_links[dir_name] ELSE <<>>
            IN [maps EXCEPT
                   !.dir_to_links = DictPut(@, dir_name, Append(links, image_link))]

EmptyMaps == [name_to_link |-> EmptyDict, dir_to_links |-> EmptyDict]

RECURSIVE BuildLoop(_, _, _)
BuildLoop(variant, contents, maps) ==
    IF contents = <<>> THEN maps
    ELSE BuildLoop(variant, Tail(contents),
                   IF variant = "openai" THEN AddKey(maps, Head(contents))
                   ELSE AddKeyOpen(maps, Head(contents)))

\* build_assets_map_s3 given the response of list_objects_v2, a dict whose
\* Contents entry (the listed keys) is absent when nothing is listed.
build_assets_map_s3(variant, response) ==
    IF "Contents" \notin DOMAIN response THEN EmptyMaps
    ELSE BuildLoop(variant, response.Contents, EmptyMaps)

\* Object keys under the prefix, relative to it, in the order S3 lists them
\* (ascending byte order of the key).
RelKeys ==
    << <<>>, <<"A", ".", "p", "n", "g">>, <<"B", "/", "e", ".", "p", "n", "g">>, <<"a", ".", "j", "p", "e", "g">>, <<"a", ".", "p", "n", "g">>, <<"b", "/">>,
       <<"b", "/", "c", ".", "p", "n", "g">>, <<"b", "/", "d", ".", "p", "n", "g">>, <<"d", "/", "n", ".", "t", "x", "t">> >>

\* The listing of the objects whose indices in RelKeys are in chosen.
RECURSIVE ListingFrom(_, _)
ListingFrom(chosen, i) ==
    IF i > Len(RelKeys) THEN <<>>
    ELSE (IF i \in chosen THEN <<S3_PREFIX \o RelKeys[i]>> ELSE <<>>)
         \o ListingFrom(chosen, i + 1)

\* The response of list_objects_v2: no Contents entry when no key is listed.
Response(chosen) ==
    IF chosen = {} THEN EmptyDict ELSE [Contents |-> ListingFrom(chosen, 1)]

Variants == {"openai", "open-source"}

InitAssets ==
    /\ assets \in [pc : {"call"}, variant : Variants, response : {EmptyDict},
                   maps : {EmptyMaps}]
    \* the other components are not in use
    /\ loop = NoValue
    /\ pc = NoValue /\ msg = NoValue /\ local = NoValue
    /\ sent = NoValue /\ calls = NoValue /\ handled = NoValue
    /\ split = NoValue
    /\ search = NoValue
    /\ retrieval = NoValue

\* response = await s3.list_objects_v2(Bucket=S3_BUCKET, Prefix=S3_PREFIX)
AssetsList ==
    /\ assets.pc = "call"
    /\ \E chosen \in SUBSET (1..Len(RelKeys)) :
          assets' = [assets EXCEPT !.pc = "listed", !.response = Response(chosen)]
    /\ UNCHANGED <<mainVars, split, search, retrieval, loop>>

\* the loop over response['Contents'] and the return
AssetsBuild ==
    /\ assets.pc = "listed"
    /\ assets' = [assets EXCEPT
                     !.pc = "done",
                     !.maps = build_assets_map_s3(assets.variant, assets.response)]
    /\ UNCHANGED <<mainVars, split, search, retrieval, loop>>

NextAssets ==
    \/ AssetsList
    \/ AssetsBuild

SpecAssets == InitAssets /\ [][NextAssets]_vars

(***************************************************************************)
(* on_message of the openai variant (src/openai/app.py 1309-1835).         *)
(* pc is the position in the body; "returned" and "raised" are its two     *)
(* ends (a return, and an exception that leaves on_message).               *)
(***************************************************************************)
InitMain ==
    /\ pc = "idle"
    /\ msg = NoValue
    /\ local = InitLocal
    /\ sent = <<>>
    /\ calls = <<>>
    /\ handled = 0
    \* the other components are not in use
    /\ loop = NoValue
    /\ split = NoValue
    /\ search = NoValue
    /\ retrieval = NoValue
    /\ assets = NoValue

\* A process that an exception of a handler ends: no message is delivered
\* after a handler that raised.
ReceiveMessageWhileHealthy ==
    /\ pc \in {"idle", "returned"}
    /\ handled < MaxMessages
    /\ \E m \in Messages : msg' = m
    /\ pc' = "on_message"
    /\ local' = InitLocal
    /\ sent' = <<>>
    /\ calls' = <<>>
    /\ handled' = handled + 1
    /\ UNCHANGED <<split, search, retrieval, assets, loop>>

\* The gateway delivers the next message once the handler of the previous
\* one has ended; sent and calls are the log of the message being handled.
ReceiveMessage ==
    /\ pc \in {"idle", "returned", "raised"}
    /\ handled < MaxMessages
    /\ \E m \in Messages : msg' = m
    /\ pc' = "on_message"
    /\ local' = InitLocal
    /\ sent' = <<>>
    /\ calls' = <<>>
    /\ handled' = handled + 1
    /\ UNCHANGED <<split, search, retrieval, assets, loop>>

\* for part in split_message(reply): await message.channel.send(...)
\* The loop is entered with the parts to send; with none it is skipped.
StartSend(reply, wrap, after) ==
    LET parts == split_message(reply, ScaledLimit)
    IN /\ local' = [local EXCEPT !.reply = reply, !.parts = parts,
                                 !.wrap = wrap, !.kind = "reply",
                                 !.after = after]
       /\ pc' = IF parts = <<>> THEN after ELSE "send_loop"

\* A send loop that takes the chunks from the end of the list.
SendPartFromEnd ==
    /\ pc = "send_loop"
    /\ local.parts # <<>>
    /\ LET part == local.parts[Len(local.parts)]
           text == IF local.wrap THEN prevent_url_embeds(part) ELSE part
       IN sent' = Append(sent, Entry(local.kind, text))
    /\ local' = [local EXCEPT !.parts = DropLast(local.parts, 1)]
    /\ pc' = IF DropLast(local.parts, 1) = <<>> THEN local.after ELSE "send_loop"
    /\ UNCHANGED <<msg, calls, handled>>
    /\ UNCHANGED <<split, search, retrieval, assets, loop>>

\* One iteration of a send loop: one awaited channel.send.
SendPart ==
    /\ pc = "send_loop"
    /\ local.parts # <<>>
    /\ LET part == Head(local.parts)
           text == IF local.wrap THEN prevent_url_embeds(part) ELSE part
       IN sent' = Append(sent, Entry(local.kind, text))
    /\ local' = [local EXCEPT !.parts = Tail(local.parts)]
    /\ pc' = IF Tail(local.parts) = <<>> THEN local.after ELSE "send_loop"
    /\ UNCHANGED <<msg, calls, handled>>
    /\ UNCHANGED <<split, search, retrieval, assets, loop>>

\* An entry of on_message without the author check.
OnMessageEntryAnyAuthor ==
    /\ pc = "on_message"
    /\ pc' = "bang"
    /\ local' = [local EXCEPT
          !.image_urls = SelectSeq(msg.attachments, LAMBDA a : a.url_is_image),
          !.content_lower = Strip(Lower(msg.content))]
    /\ UNCHANGED <<msg, sent, calls, handled>>
    /\ UNCHANGED <<split, search, retrieval, assets, loop>>

\* lines 1310-1324
OnMessageEntry ==
    /\ pc = "on_message"
    /\ IF msg.author = "bot"
       THEN pc' = "returned" /\ UNCHANGED local
       ELSE /\ pc' = "bang"
            /\ local' = [local EXCEPT
                  !.image_urls = SelectSeq(msg.attachments,
                                           LAMBDA a : a.url_is_image),
                  !.content_lower = Strip(Lower(msg.content))]
    /\ UNCHANGED <<msg, sent, calls, handled>>
    /\ UNCHANGED <<split, search, retrieval, assets, loop>>

\* lines 1327-1430: the bang-commands answered with fixed text
BangReplies(content_lower) ==
    (IF StartsWith(content_lower, <<"!", "h", "e", "l", "p">>)
     THEN <<Entry("help_menu", <<>>)>> ELSE <<>>)
    \o (IF Strip(content_lower) = <<"!", "h", "e", "r", "o">> \/ Strip(content_lower) = <<"!", "h", "e", "r", "o", "e", "s">>
        THEN <<Entry("heroes_menu", <<>>)>> ELSE <<>>)
    \o (IF StartsWith(content_lower, <<"!", "c", "a", "l", "e", "n", "d", "a", "r">>)
           \/ StartsWith(content_lower, <<"!", "c", "a", "l", "e", "n", "d", "e", "r">>)
        THEN <<Entry("here_it_is", <<>>), Entry("cal_link", <<>>)>> ELSE <<>>)

BangCommands ==
    /\ pc = "bang"
    /\ sent' = sent \o BangReplies(local.content_lower)
    /\ pc' = "addressed"
    /\ UNCHANGED <<msg, local, calls, handled>>
    /\ UNCHANGED <<split, search, retrieval, assets, loop>>

\* bool(s) of a string
Truthy(s) == s # <<>>

\* line 1433: the third operand is the string itself, not a membership test
bot_called_by_name(content_lower) ==
    \/ Contains(content_lower, NAME_OF_BOT \o <<" ">>)
    \/ Contains(content_lower, NAME_OF_BOT \o <<" ">>)
    \/ Truthy(NAME_OF_BOT \o <<",">>)

\* line 1435
bot_mentioned_by_mention(m) == \E i \in 1..Len(m.mentions) : m.mentions[i] = BotUser

\* lines 1438-1443
bot_replied_to(m) == m.reply_to_bot

\* line 1446
AddressedCheck ==
    /\ pc = "addressed"
    /\ pc' = IF \/ bot_called_by_name(local.content_lower)
                \/ bot_replied_to(msg)
                \/ bot_mentioned_by_mention(msg)
             THEN "history" ELSE "skip"
    /\ UNCHANGED <<msg, local, sent, calls, handled>>
    /\ UNCHANGED <<split, search, retrieval, assets, loop>>

\* modified_content.replace(f"<@{mention.id}>", name) for every mention
RECURSIVE ReplaceMentions(_, _, _)
ReplaceMentions(text, mentions, field) ==
    IF mentions = <<>> THEN text
    ELSE ReplaceMentions(
            Replace(text, <<"<", "@">> \o Head(mentions).id \o <<">">>, Head(mentions)[field]),
            Tail(mentions), field)

\* The text of the channel history, whatever it is, kept as one piece.
HistoryText == <<"{conversation_history_whole}">>
ReplyNote == <<"{reply_to_note}">>

\* lines 1468-1471
content_plus_conversation(content_lower, m) ==
    content_lower \o <<"\n", " ", "C", "o", "n", "v", "e", "r", "s", "a", "t", "i", "o", "n", " ", "h", "i", "s", "t", "o", "r", "y", ":", " ">> \o HistoryText
    \o (IF bot_replied_to(m)
        THEN <<"\n", " ", "U", "s", "e", "r", " ", "r", "e", "p", "l", "i", "e", "d", " ", "t", "o", " ", "y", "o", "u", "r", " ", "p", "r", "e", "v", "i", "o", "u", "s", " ", "m", "e", "s", "s", "a", "g", "e", ":", " ">> \o ReplyNote
        ELSE <<>>)

\* lines 1447-1505: the last ten messages, and the two mention rewrites
GatherHistory ==
    /\ pc = "history"
    /\ calls' = Append(calls, "history")
    /\ LET cpc == content_plus_conversation(local.content_lower, msg)
       IN local' = [local EXCEPT
             !.content_lower = ReplaceMentions(cpc, msg.mentions, "display_name"),
             !.alt_content_lower = ReplaceMentions(cpc, msg.mentions, "name")]
    /\ pc' = "decide"
    /\ UNCHANGED <<msg, sent, handled>>
    /\ UNCHANGED <<split, search, retrieval, assets, loop>>

\* lines 1510-1511: the first classification call returns a decision
DecideFirst ==
    /\ pc = "decide"
    /\ calls' = Append(calls, "classify")
    /\ \E d \in Decisions : local' = [local EXCEPT !.json = d]
    /\ pc' = "dispatch"
    /\ UNCHANGED <<msg, sent, handled>>
    /\ UNCHANGED <<split, search, retrieval, assets, loop>>

\* lines 1510-1513: the first classification call raises
DecideFirstFails ==
    /\ pc = "decide"
    /\ calls' = Append(calls, "classify")
    /\ local' = [local EXCEPT !.failures = 1]
    /\ pc' = "decide_retry"
    /\ UNCHANGED <<msg, sent, handled>>
    /\ UNCHANGED <<split, search, retrieval, assets, loop>>

\* A retry that reports the first failure to the channel although it
\* returned a decision.
DecideRetryReports ==
    /\ pc = "decide_retry"
    /\ calls' = Append(calls, "classify")
    /\ sent' = Append(sent, Entry("error", <<"{e}">>))
    /\ \E d \in Decisions : local' = [local EXCEPT !.json = d]
    /\ pc' = "dispatch"
    /\ UNCHANGED <<msg, handled>>
    /\ UNCHANGED <<split, search, retrieval, assets, loop>>

\* lines 1514-1515: the retry returns a decision
DecideRetry ==
    /\ pc = "decide_retry"
    /\ calls' = Append(calls, "classify")
    /\ \E d \in Decisions : local' = [local EXCEPT !.json = d]
    /\ pc' = "dispatch"
    /\ UNCHANGED <<msg, sent, handled>>
    /\ UNCHANGED <<split, search, retrieval, assets, loop>>

\* A slip this code could have made: after the error is sent the decision
\* falls back to an empty one, so that todo defaults to none.
DecideRetryFallsBack ==
    /\ pc = "decide_retry"
    /\ calls' = Append(calls, "classify")
    /\ sent' = Append(sent, Entry("error", <<"{e}">>))
    /\ local' = [local EXCEPT !.failures = 2, !.json = EmptyDict]
    /\ pc' = "dispatch"
    /\ UNCHANGED <<msg, handled>>
    /\ UNCHANGED <<split, search, retrieval, assets, loop>>

\* lines 1516-1519: the retry raises too; the error is sent and nothing
\* returns, so line 1519 reads json_decide_what_to_do, which was never
\* assigned: UnboundLocalError leaves on_message
DecideRetryFails ==
    /\ pc = "decide_retry"
    /\ calls' = Append(calls, "classify")
    /\ sent' = Append(sent, Entry("error", <<"{e}">>))
    /\ local' = [local EXCEPT !.failures = 2]
    /\ pc' = "raised"
    /\ UNCHANGED <<msg, handled>>
    /\ UNCHANGED <<split, search, retrieval, assets, loop>>

\* The if / elif chain of lines 1527-1750 as the branch a todo selects.
Branch(todo) ==
    CASE todo = "summarize" -> "summarize"
      [] todo \in {"gotc", "web_search", "miscellaneous"} -> "gotc"
      [] todo = "translation" -> "translation"
      [] todo = "about_chat" -> "about_chat"
      [] todo = "about_me" -> "about_me"
      [] todo = "analyze_user" -> "analyze_user"
      [] todo = "humor" -> "humor"
      [] todo = "generate_image" -> "generate_image"
      [] todo = "help" -> "help"
      [] todo = "none" -> "none"
      [] todo = "calendar" -> "calendar"
      [] OTHER -> "else"

\* lines 1519-1522 and the branch taken
Dispatch ==
    /\ pc = "dispatch"
    /\ LET todo == Get(local.json, "todo", "none")
           language == Get(local.json, "language", "english")
       IN /\ local' = [local EXCEPT !.todo = todo, !.language = language]
          /\ pc' = Branch(todo)
    /\ UNCHANGED <<msg, sent, calls, handled>>
    /\ UNCHANGED <<split, search, retrieval, assets, loop>>

\* A chat completion either returns a text or raises.
Raised == [raised |-> TRUE]
Failed(outcome) == "raised" \in DOMAIN outcome
GenOutcomes == {[text |-> r] : r \in Replies} \cup {Raised}

\* all_in_one_search inside a handler: its two provider calls, whose
\* failures it absorbs (see SpecSearch); the results only enter the prompt.
SearchCalls == <<"search_duck", "search_google">>

\* lines 1527-1531: first parameter extraction
SummarizeExtract ==
    /\ pc = "summarize"
    /\ calls' = Append(calls, "extract")
    /\ \/ \E j \in SummarizeJsons :
             local' = [local EXCEPT !.json_call_for_summarize_function = j] /\ pc' = "summarize_run"
       \/ local' = local /\ pc' = "summarize_retry"
    /\ UNCHANGED <<msg, sent, handled>>
    /\ UNCHANGED <<split, search, retrieval, assets, loop>>

\* lines 1532-1539: the retry; on a second failure the error is sent
SummarizeRetry ==
    /\ pc = "summarize_retry"
    /\ calls' = Append(calls, "extract")
    /\ \/ /\ \E j \in SummarizeJsons : local' = [local EXCEPT !.json_call_for_summarize_function = j]
          /\ pc' = "summarize_run"
          /\ sent' = sent
       \/ /\ local' = local
          /\ sent' = Append(sent, Entry("error", <<"{e}">>))
          /\ pc' = "returned"
    /\ UNCHANGED <<msg, handled>>
    /\ UNCHANGED <<split, search, retrieval, assets, loop>>

\* lines 1540-1556: int() of the extracted values, the history since the
\* cutoff, the summarization call and the send loop
SummarizeRun ==
    /\ pc = "summarize_run"
    /\ IF ~(IsInt(Get(local.json_call_for_summarize_function, "days", "0")) /\ IsInt(Get(local.json_call_for_summarize_function, "hours", "0")))
       THEN pc' = "raised" /\ UNCHANGED <<local, calls>>
       ELSE \E out \in GenOutcomes :
               /\ calls' = calls \o <<"history", "generate">>
               /\ IF Failed(out)
                  THEN pc' = "raised" /\ local' = local
                  ELSE StartSend(out.text, TRUE, "skip")
    /\ UNCHANGED <<msg, sent, handled>>
    /\ UNCHANGED <<split, search, retrieval, assets, loop>>

\* lines 1566-1572 and 1755-1761: image_urls rebuilt from the file names
ImagesByFilename(m) == SelectSeq(m.attachments, LAMBDA a : a.filename_is_image)

\* lines 1564-1585 (and 1753-1774): process_message_with_images when an
\* attachment is an image, nothing when the attachments hold no image,
\* process_message when there is no attachment
DomainAnswer ==
    IF msg.attachments # <<>> /\ ImagesByFilename(msg) = <<>>
    THEN /\ local' = [local EXCEPT !.image_urls = <<>>]
         /\ pc' = "skip"
         /\ calls' = calls
    ELSE \E out \in GenOutcomes :
            /\ calls' = calls \o SearchCalls \o <<"generate">>
            /\ IF Failed(out)
               THEN pc' = "raised" /\ local' = local
               ELSE StartSend(out.text, TRUE, "skip")

\* lines 1561-1585
GotcBranch ==
    /\ pc = "gotc"
    /\ DomainAnswer
    /\ UNCHANGED <<msg, sent, handled>>
    /\ UNCHANGED <<split, search, retrieval, assets, loop>>

\* lines 1590-1595: translation_reply is called with two of its four
\* required arguments, which raises TypeError before any call is made
TranslationBranch ==
    /\ pc = "translation"
    /\ pc' = "raised"
    /\ UNCHANGED <<msg, local, sent, calls, handled>>
    /\ UNCHANGED <<split, search, retrieval, assets, loop>>

\* lines 1600-1612
AboutChatBranch ==
    /\ pc = "about_chat"
    /\ \E out \in GenOutcomes :
          /\ calls' = calls \o <<"history", "generate">>
          /\ IF Failed(out)
             THEN pc' = "raised" /\ local' = local
             ELSE StartSend(out.text, TRUE, "skip")
    /\ UNCHANGED <<msg, sent, handled>>
    /\ UNCHANGED <<split, search, retrieval, assets, loop>>

\* lines 1617-1640: everything is inside one try; an exception sends the
\* error. A failed or empty category extraction is absorbed by the inner try
\* (the fixed categories of line 1632 stand in) and the flow goes on.
AboutMeBranch ==
    /\ pc = "about_me"
    /\ \E out \in GenOutcomes :
          /\ calls' = calls \o <<"history", "extract", "generate">>
          /\ IF Failed(out)
             THEN /\ sent' = Append(sent, Entry("error", <<"{e}">>))
                  /\ pc' = "skip"
                  /\ local' = local
             ELSE /\ sent' = sent
                  /\ StartSend(out.text, TRUE, "skip")
    /\ UNCHANGED <<msg, handled>>
    /\ UNCHANGED <<split, search, retrieval, assets, loop>>

\* What what_user_are_they_talking_about may return, or that it raises.
WhatUserOutcomes == {[user |-> "none"], [user |-> "caim"], EmptyDict, Raised}

\* lines 1645-1653: the user to analyze. When the call raises, the except
\* clause of line 1677 formats what_user_username, which is unbound:
\* UnboundLocalError leaves on_message and nothing is sent.
AnalyzeUserWho ==
    /\ pc = "analyze_user"
    /\ calls' = Append(calls, "extract")
    /\ \E who \in WhatUserOutcomes :
          IF Failed(who)
          THEN pc' = "raised" /\ sent' = sent
          ELSE IF Get(who, "user", "none") = "none"
          THEN pc' = "returned" /\ sent' = Append(sent, Entry("sorry_user", <<>>))
          ELSE pc' = "analyze_user_run"
               /\ sent' = Append(sent, Entry("analyzing", <<>>))
    /\ UNCHANGED <<msg, local, handled>>
    /\ UNCHANGED <<split, search, retrieval, assets, loop>>

\* lines 1656-1678
AnalyzeUserRun ==
    /\ pc = "analyze_user_run"
    /\ \E out \in GenOutcomes :
          /\ calls' = calls \o <<"history", "extract", "generate">>
          /\ IF Failed(out)
             THEN /\ sent' = Append(sent, Entry("error", <<"{e}">>))
                  /\ pc' = "skip"
                  /\ local' = local
             ELSE /\ sent' = sent
                  /\ StartSend(out.text, TRUE, "skip")
    /\ UNCHANGED <<msg, handled>>
    /\ UNCHANGED <<split, search, retrieval, assets, loop>>

\* lines 1683-1695: the parts are sent as they are, with no URL wrapping
HumorBranch ==
    /\ pc = "humor"
    /\ \E out \in GenOutcomes :
          /\ calls' = calls \o <<"history", "generate">>
          /\ IF Failed(out)
             THEN pc' = "raised" /\ local' = local
             ELSE StartSend(out.text, FALSE, "skip")
    /\ UNCHANGED <<msg, sent, handled>>
    /\ UNCHANGED <<split, search, retrieval, assets, loop>>

\* What make_json_of_image_request may return, or that it raises.
ImageRequestOutcomes ==
    {[image_request |-> "none"], [image_request |-> "a droplet", size |-> "1024x1792"],
     EmptyDict, Raised}

\* lines 1702-1708
GenerateImageRequest ==
    /\ pc = "generate_image"
    /\ calls' = Append(calls, "extract")
    /\ \E req \in ImageRequestOutcomes :
          IF Failed(req)
          THEN pc' = "raised" /\ sent' = sent
          ELSE IF Get(req, "image_request", "none") = "none"
          THEN /\ pc' = "returned"
               /\ sent' = sent \o <<Entry("generating", <<>>),
                                    Entry("sorry_image", <<>>)>>
          ELSE /\ pc' = "generate_image_run"
               /\ sent' = Append(sent, Entry("generating", <<>>))
    /\ UNCHANGED <<msg, local, handled>>
    /\ UNCHANGED <<split, search, retrieval, assets, loop>>

\* generate_image (lines 857-892): the image call raises; or the download
\* answers with another status than 200 and None is returned; or the upload
\* fails and upload_to_s3 returns None; or the storage URL is returned.
ImageOutcomes == {"generate_raises", "download_fails", "upload_fails", "url"}

ImageCalls(outcome) ==
    CASE outcome = "generate_raises" -> <<"image_generate">>
      [] outcome = "download_fails" -> <<"image_generate", "download">>
      [] OTHER -> <<"image_generate", "download", "s3_put">>

\* lines 1710-1715: channel.send(None) is refused by the platform, which
\* raises inside the try like a failed generation does
GenerateImageRun ==
    /\ pc = "generate_image_run"
    /\ \E outcome \in ImageOutcomes :
          /\ calls' = calls \o ImageCalls(outcome)
          /\ sent' = Append(sent, IF outcome = "url"
                                  THEN Entry("image_url", <<"{s3_url}">>)
                                  ELSE Entry("apology", <<>>))
          /\ local' = [local EXCEPT !.image_outcome = outcome]
    /\ pc' = "skip"
    /\ UNCHANGED <<msg, handled>>
    /\ UNCHANGED <<split, search, retrieval, assets, loop>>

\* lines 1720-1723
HelpBranch ==
    /\ pc = "help"
    /\ sent' = Append(sent, Entry("help", <<>>))
    /\ pc' = "skip"
    /\ UNCHANGED <<msg, local, calls, handled>>
    /\ UNCHANGED <<split, search, retrieval, assets, loop>>

\* A slip this code could have made: the none branch answers with a notice.
NoneBranchNotice ==
    /\ pc = "none"
    /\ sent' = Append(sent, Entry("sorry_request", <<>>))
    /\ pc' = "skip"
    /\ UNCHANGED <<msg, local, calls, handled>>
    /\ UNCHANGED <<split, search, retrieval, assets, loop>>

\* lines 1728-1730
NoneBranch ==
    /\ pc = "none"
    /\ pc' = "skip"
    /\ UNCHANGED <<msg, local, sent, calls, handled>>
    /\ UNCHANGED <<split, search, retrieval, assets, loop>>

\* A calendar branch that sends the link first and the reply after it.
CalendarBranchLinkFirst ==
    /\ pc = "calendar"
    /\ \E out \in GenOutcomes :
          /\ calls' = calls \o SearchCalls \o <<"generate">>
          /\ IF Failed(out)
             THEN pc' = "raised" /\ local' = local /\ sent' = sent
             ELSE /\ sent' = Append(sent, Entry("cal_link", <<>>))
                  /\ StartSend(out.text, TRUE, "skip")
    /\ UNCHANGED <<msg, handled>>
    /\ UNCHANGED <<split, search, retrieval, assets, loop>>

\* lines 1735-1743: miscellaneous_reply with the calendar image, then the loop
CalendarBranch ==
    /\ pc = "calendar"
    /\ \E out \in GenOutcomes :
          /\ calls' = calls \o SearchCalls \o <<"generate">>
          /\ IF Failed(out)
             THEN pc' = "raised" /\ local' = local
             ELSE StartSend(out.text, TRUE, "calendar_link")
    /\ UNCHANGED <<msg, sent, handled>>
    /\ UNCHANGED <<split, search, retrieval, assets, loop>>

\* line 1745
CalendarLink ==
    /\ pc = "calendar_link"
    /\ sent' = Append(sent, Entry("cal_link", <<>>))
    /\ pc' = "skip"
    /\ UNCHANGED <<msg, local, calls, handled>>
    /\ UNCHANGED <<split, search, retrieval, assets, loop>>

\* lines 1750-1751: the notice of the else branch
ElseNotice ==
    /\ pc = "else"
    /\ sent' = Append(sent, Entry("sorry_request", <<>>))
    /\ pc' = "else_answer"
    /\ UNCHANGED <<msg, local, calls, handled>>
    /\ UNCHANGED <<split, search, retrieval, assets, loop>>

\* lines 1752-1774
ElseAnswer ==
    /\ pc = "else_answer"
    /\ DomainAnswer
    /\ UNCHANGED <<msg, sent, handled>>
    /\ UNCHANGED <<split, search, retrieval, assets, loop>>

\* lines 1777-1785
skip_conditions(content_lower) ==
    \/ StartsWith(content_lower, <<"!", "h", "e", "l", "p">>)
    \/ StartsWith(content_lower, <<"!", "c", "a", "l", "e", "n", "d", "a", "r">>)
    \/ StartsWith(content_lower, <<"!", "i", "m", "a", "g", "e">>)
    \/ StartsWith(content_lower, <<"!", "c", "a", "l", "e", "n", "d", "e", "r">>)
    \/ StartsWith(content_lower, <<"!", "f", "a", "n", "t", "a", "s", "y">>)
    \/ StartsWith(content_lower, <<"!", "h", "e", "r", "o", "e", "s">>)

\* lines 1806-1808: the first character is dropped whatever it is
CommandParts(content_lower) == SplitWords(Slice(content_lower, 1, Len(content_lower)))

\* lines 1776-1815: the skip conditions, the mention rewrite of the original
\* content, and the command word
ParseCommand ==
    /\ pc = "skip"
    /\ IF skip_conditions(local.content_lower)
       THEN pc' = "returned" /\ local' = local
       ELSE LET content_lower ==
                    Lower(ReplaceMentions(msg.content, msg.mentions, "display_name"))
                parts == CommandParts(content_lower)
            IN IF parts = <<>>
               THEN /\ pc' = "returned"
                    /\ local' = [local EXCEPT !.content_lower = content_lower]
               ELSE /\ pc' = "assets"
                    /\ local' = [local EXCEPT
                          !.content_lower = content_lower,
                          !.image_name = Strip(Lower(parts[1]))]
    /\ UNCHANGED <<msg, sent, calls, handled>>
    /\ UNCHANGED <<split, search, retrieval, assets, loop>>

\* The object listings the lookup of on_message is given in this model.
LookupListings == { {}, {5, 7, 8}, {3, 4, 6, 9} }

\* lines 1820-1835: the listing, the two maps, and the links sent
AssetLookup ==
    /\ pc = "assets"
    /\ calls' = Append(calls, "s3_list")
    /\ \/ pc' = "raised" /\ local' = local /\ sent' = sent
       \/ \E chosen \in LookupListings :
             LET maps == build_assets_map_s3("openai", Response(chosen))
                 image_name == local.image_name
             IN IF image_name \in DOMAIN maps.name_to_link
                THEN /\ sent' = Append(sent, Entry("asset", maps.name_to_link[image_name]))
                     /\ pc' = "returned"
                     /\ local' = local
                ELSE IF image_name \in DOMAIN maps.dir_to_links
                THEN /\ sent' = sent
                     /\ local' = [local EXCEPT
                           !.parts = maps.dir_to_links[image_name],
                           !.wrap = FALSE, !.kind = "asset", !.after = "returned"]
                     /\ pc' = "send_loop"
                ELSE /\ sent' = sent /\ local' = local /\ pc' = "returned"
    /\ UNCHANGED <<msg, handled>>
    /\ UNCHANGED <<split, search, retrieval, assets, loop>>

(***************************************************************************)
(* The /summarize slash command (src/openai/app.py 927-970): an            *)
(* interaction instead of a message; its replies go to                     *)
(* interaction.followup.send.                                              *)
(***************************************************************************)
\* The text argument of the command.
InteractionTexts == { <<"a">>, <<"A", " ", "b">> }

Interactions ==
    { [Plain("user", t, <<>>) EXCEPT !.event = "summarize_command"] :
          t \in InteractionTexts }

\* The gateway delivers a /summarize interaction.
ReceiveInteraction ==
    /\ pc \in {"idle", "returned", "raised"}
    /\ handled < MaxMessages
    /\ \E m \in Interactions : msg' = m
    /\ pc' = "command"
    /\ local' = InitLocal
    /\ sent' = <<>>
    /\ calls' = <<>>
    /\ handled' = handled + 1
    /\ UNCHANGED <<split, search, retrieval, assets, loop>>

\* lines 935-941: defer, text.lower(), and the first parameter extraction
CommandExtract ==
    /\ pc = "command"
    /\ calls' = Append(calls, "extract")
    /\ \/ \E j \in SummarizeJsons :
             /\ local' = [local EXCEPT !.content_lower = Lower(msg.content),
                                       !.json_call_for_summarize_function = j]
             /\ pc' = "command_run"
       \/ /\ local' = [local EXCEPT !.content_lower = Lower(msg.content)]
          /\ pc' = "command_retry"
    /\ UNCHANGED <<msg, sent, handled>>
    /\ UNCHANGED <<split, search, retrieval, assets, loop>>

\* A retry that, on the second failure, sends the error and goes on with
\* the defaults of an empty JSON object.
CommandRetryGoesOn ==
    /\ pc = "command_retry"
    /\ calls' = Append(calls, "extract")
    /\ \/ /\ \E j \in SummarizeJsons : local' = [local EXCEPT !.json_call_for_summarize_function = j]
          /\ pc' = "command_run"
          /\ sent' = sent
       \/ /\ local' = [local EXCEPT !.json_call_for_summarize_function = EmptyDict]
          /\ sent' = Append(sent, Entry("error", <<"{e}">>))
          /\ pc' = "command_run"
    /\ UNCHANGED <<msg, handled>>
    /\ UNCHANGED <<split, search, retrieval, assets, loop>>

\* lines 942-949: the retry; on a second failure the error is sent
CommandRetry ==
    /\ pc = "command_retry"
    /\ calls' = Append(calls, "extract")
    /\ \/ /\ \E j \in SummarizeJsons : local' = [local EXCEPT !.json_call_for_summarize_function = j]
          /\ pc' = "command_run"
          /\ sent' = sent
       \/ /\ local' = local
          /\ sent' = Append(sent, Entry("error", <<"{e}">>))
          /\ pc' = "returned"
    /\ UNCHANGED <<msg, handled>>
    /\ UNCHANGED <<split, search, retrieval, assets, loop>>

\* lines 951-970: int() of the extracted values, the history since the
\* cutoff, the summarization call and the send loop (parts sent as they are)
CommandRun ==
    /\ pc = "command_run"
    /\ IF ~(IsInt(Get(local.json_call_for_summarize_function, "days", "0")) /\ IsInt(Get(local.json_call_for_summarize_function, "hours", "0")))
       THEN pc' = "raised" /\ UNCHANGED <<local, calls>>
       ELSE \E out \in GenOutcomes :
               /\ calls' = calls \o <<"history", "generate">>
               /\ IF Failed(out)
                  THEN pc' = "raised" /\ local' = local
                  ELSE StartSend(out.text, FALSE, "returned")
    /\ UNCHANGED <<msg, sent, handled>>
    /\ UNCHANGED <<split, search, retrieval, assets, loop>>

(***************************************************************************)
(* on_message of the open-source variant                                   *)
(* (src/open-source/open-app.py 302-577); its positions start with open_.  *)
(***************************************************************************)
NAME_TO_CALL_BOT == <<"f", "r", "e", "e", "b", "o", "t">>

OpenContents ==
    { <<"!", "h", "e", "l", "p">>, <<"!", "i", "m", "a", "g", "e", " ", "x">>, <<"!", "I", "m", "a", "g", "e", " ", "x">>, <<"!", "f", "a", "n", "t", "a", "s", "y", " ", "x">>, <<"!", "c", "a", "l", "e", "n", "d", "a", "r">>,
      <<"!", "a">>, <<"!", "B", " ", "x">>, <<"f", "r", "e", "e", "b", "o", "t", ",", " ", "h", "i">>, <<"f", "r", "e", "e", "b", "o", "t", " ", "h", "i">>, <<"h", "i">>, <<"x">> }

OpenMessages ==
    { [Plain("user", c, <<>>) EXCEPT !.event = "open_on_message"] :
          c \in OpenContents }
    \cup { [Plain("user", <<"h", "i">>, <<>>) EXCEPT
                !.event = "open_on_message", !.reply_to_bot = TRUE],
           [Plain("user", <<"<", "@", "1", ">", " ", "h", "i">>, <<>>) EXCEPT
                !.event = "open_on_message", !.mentions = <<BotUser>>],
           [Plain("bot", <<"f", "r", "e", "e", "b", "o", "t", ",", " ", "h", "i">>, <<>>) EXCEPT
                !.event = "open_on_message"] }

\* The gateway delivers a message to the open-source bot.
ReceiveMessageOpen ==
    /\ pc \in {"idle", "returned", "raised"}
    /\ handled < MaxMessages
    /\ \E m \in OpenMessages : msg' = m
    /\ pc' = "open_on_message"
    /\ local' = InitLocal
    /\ sent' = <<>>
    /\ calls' = <<>>
    /\ handled' = handled + 1
    /\ UNCHANGED <<split, search, retrieval, assets, loop>>

\* lines 313-399: the two menus
OpenMenus(content_lower) ==
    (IF StartsWith(content_lower, <<"!", "h", "e", "l", "p">>)
     THEN <<Entry("help_menu", <<>>)>> ELSE <<>>)
    \o (IF Strip(content_lower) = <<"!", "h", "e", "r", "o">> \/ Strip(content_lower) = <<"!", "h", "e", "r", "o", "e", "s">>
        THEN <<Entry("heroes_menu", <<>>)>> ELSE <<>>)

\* lines 305-399: the author check, content_lower, and the menus
OpenEntry ==
    /\ pc = "open_on_message"
    /\ IF msg.author = "bot"
       THEN pc' = "returned" /\ UNCHANGED <<local, sent>>
       ELSE /\ pc' = "open_image"
            /\ local' = [local EXCEPT !.content_lower = Lower(msg.content)]
            /\ sent' = sent \o OpenMenus(Lower(msg.content))
    /\ UNCHANGED <<msg, calls, handled>>
    /\ UNCHANGED <<split, search, retrieval, assets, loop>>

\* generate_image (lines 83-134) as its caller sees it: the POST raises, or
\* the status is not 200, or check_if_safe_for_work rejects the image
\* (lines 164-171) or gets a status that is not 200 (lines 172-175), or
\* upload_to_s3 returns None after its own except clause, or the URL.
OpenImageOutcomes ==
    {"generate_raises", "bad_status", "rejected", "moderation_bad_status",
     "upload_fails", "url"}

\* generate_image uploading the picture whatever the moderation answered
OpenImageCallsUploadsAnyway(outcome) ==
    CASE outcome \in {"generate_raises", "bad_status"} -> <<"image_generate">>
      [] OTHER -> <<"image_generate", "moderate", "s3_put">>

OpenImageCalls(outcome) ==
    CASE outcome \in {"generate_raises", "bad_status"} -> <<"image_generate">>
      [] outcome \in {"rejected", "moderation_bad_status"} ->
            <<"image_generate", "moderate">>
      [] OTHER -> <<"image_generate", "moderate", "s3_put">>

\* The two image commands.
OpenImageCommands == { <<"!", "i", "m", "a", "g", "e">>, <<"!", "f", "a", "n", "t", "a", "s", "y">> }

\* lines 401-435: message.content.split(keyword)[1] on the original text,
\* then generate_image inside the try
OpenImage ==
    /\ pc = "open_image"
    /\ IF \E kw \in OpenImageCommands : StartsWith(local.content_lower, kw)
       THEN LET kw == CHOOSE k \in OpenImageCommands :
                          StartsWith(local.content_lower, k)
            IN IF ~Contains(msg.content, kw)
               THEN pc' = "raised" /\ UNCHANGED <<local, sent, calls>>
               ELSE \E outcome \in OpenImageOutcomes :
                       /\ calls' = calls \o OpenImageCalls(outcome)
                       /\ local' = [local EXCEPT !.image_outcome = outcome]
                       /\ sent' = Append(sent,
                             CASE outcome = "url" -> Entry("image_url", <<"{s3_url}">>)
                               [] outcome = "generate_raises" -> Entry("error", <<"{e}">>)
                               [] OTHER -> Entry("censored", <<>>))
                       /\ pc' = "open_calendar"
       ELSE pc' = "open_calendar" /\ UNCHANGED <<local, sent, calls>>
    /\ UNCHANGED <<msg, handled>>
    /\ UNCHANGED <<split, search, retrieval, assets, loop>>

\* lines 442-451
open_skip_conditions(content_lower) ==
    \/ StartsWith(content_lower, <<"!", "h", "e", "l", "p">>)
    \/ StartsWith(content_lower, <<"!", "c", "a", "l", "e", "n", "d", "a", "r">>)
    \/ StartsWith(content_lower, <<"!", "f", "u">>)
    \/ StartsWith(content_lower, <<"!", "i", "m", "a", "g", "e">>)
    \/ StartsWith(content_lower, <<"!", "c", "a", "l", "e", "n", "d", "e", "r">>)
    \/ StartsWith(content_lower, <<"!", "f", "a", "n", "t", "a", "s", "y">>)
    \/ StartsWith(content_lower, <<"!", "h", "e", "r", "o", "e", "s">>)

\* lines 437-483: the calendar, the skip conditions, the mention rewrite and
\* the command word
OpenParse ==
    /\ pc = "open_calendar"
    /\ sent' = sent \o
          (IF StartsWith(local.content_lower, <<"!", "c", "a", "l", "e", "n", "d", "a", "r">>)
              \/ StartsWith(local.content_lower, <<"!", "c", "a", "l", "e", "n", "d", "e", "r">>)
           THEN <<Entry("here_it_is", <<>>), Entry("cal_link", <<>>)>>
           ELSE <<>>)
    /\ IF open_skip_conditions(local.content_lower)
       THEN pc' = "returned" /\ local' = local
       ELSE LET content_lower ==
                    Lower(ReplaceMentions(msg.content, msg.mentions, "display_name"))
                parts == CommandParts(content_lower)
            IN IF parts = <<>>
               THEN /\ pc' = "returned"
                    /\ local' = [local EXCEPT !.content_lower = content_lower]
               ELSE /\ pc' = "open_assets"
                    /\ local' = [local EXCEPT
                          !.content_lower = content_lower,
                          !.image_name = Strip(Lower(parts[1]))]
    /\ UNCHANGED <<msg, calls, handled>>
    /\ UNCHANGED <<split, search, retrieval, assets, loop>>

\* lines 486-503: the listing, the two maps, and the links sent; the
\* handler then goes on to the addressed check
OpenAssetLookup ==
    /\ pc = "open_assets"
    /\ calls' = Append(calls, "s3_list")
    /\ \/ pc' = "raised" /\ local' = local /\ sent' = sent
       \/ \E chosen \in LookupListings :
             LET maps == build_assets_map_s3("open-source", Response(chosen))
                 image_name == local.image_name
             IN IF image_name \in DOMAIN maps.name_to_link
                THEN /\ sent' = Append(sent, Entry("asset", maps.name_to_link[image_name]))
                     /\ pc' = "open_addressed"
                     /\ local' = local
                ELSE IF image_name \in DOMAIN maps.dir_to_links
                        /\ maps.dir_to_links[image_name] # <<>>
                THEN /\ sent' = sent
                     /\ local' = [local EXCEPT
                           !.parts = maps.dir_to_links[image_name],
                           !.wrap = FALSE, !.kind = "asset",
                           !.after = "open_addressed"]
                     /\ pc' = "send_loop"
                ELSE /\ sent' = sent /\ local' = local /\ pc' = "open_addressed"
    /\ UNCHANGED <<msg, handled>>
    /\ UNCHANGED <<split, search, retrieval, assets, loop>>

\* lines 505-507: the name followed by a space or a comma is in the text
open_bot_called_by_name(content_lower) ==
    \/ Contains(content_lower, NAME_TO_CALL_BOT \o <<" ">>)
    \/ Contains(content_lower, NAME_TO_CALL_BOT \o <<",">>)

\* lines 505-519: the addressed check
OpenAddressed ==
    /\ pc = "open_addressed"
    /\ pc' = IF \/ open_bot_called_by_name(local.content_lower)
                \/ bot_replied_to(msg)
                \/ bot_mentioned_by_mention(msg)
             THEN "open_generate" ELSE "returned"
    /\ UNCHANGED <<msg, local, sent, calls, handled>>
    /\ UNCHANGED <<split, search, retrieval, assets, loop>>

\* lines 571-573: surrounding double quotes are removed
Unquote(reply) ==
    IF StartsWith(reply, <<"\"">>) /\ EndsWith(reply, <<"\"">>)
    THEN Slice(reply, 1, Len(reply) - 1)
    ELSE reply

\* What generate_llamacpp_response may return when it does not raise.
OpenReplies == Replies \cup { <<"\"">> \o r \o <<"\"">> : r \in Replies }

\* lines 520-577: the mention rewrites, the last six messages, the
\* completion, and the send loop
OpenGenerate ==
    /\ pc = "open_generate"
    /\ calls' = calls \o <<"history", "generate">>
    /\ \/ pc' = "raised" /\ local' = local
       \/ \E r \in OpenReplies : StartSend(Unquote(r), TRUE, "returned")
    /\ UNCHANGED <<msg, sent, handled>>
    /\ UNCHANGED <<split, search, retrieval, assets, loop>>

(***************************************************************************)
(* on_message of the legacy variant (src/legacy/app.py 239-284); its       *)
(* positions start with legacy_.                                           *)
(***************************************************************************)
\* src/legacy/app.py line 78
max_retries == 5

LegacyContents == { <<"f", "i", "r", "e", "b", "o", "t", " ", "h", "i">>, <<"F", "i", "r", "e", "b", "o", "t", ",", " ", "h", "i">>, <<"h", "i">>, <<"!", "h", "e", "l", "p">> }

LegacyMessages ==
    { [Plain("user", c, a) EXCEPT !.event = "legacy_on_message"] :
          c \in LegacyContents, a \in Attachments }
    \cup { [Plain("bot", <<"f", "i", "r", "e", "b", "o", "t", " ", "h", "i">>, <<>>) EXCEPT
                !.event = "legacy_on_message"] }

\* The gateway delivers a message to the legacy bot.
ReceiveMessageLegacy ==
    /\ pc \in {"idle", "returned", "raised"}
    /\ handled < MaxMessages
    /\ \E m \in LegacyMessages : msg' = m
    /\ pc' = "legacy_on_message"
    /\ local' = InitLocal
    /\ sent' = <<>>
    /\ calls' = <<>>
    /\ handled' = handled + 1
    /\ UNCHANGED <<split, search, retrieval, assets, loop>>

\* lines 248-253: the author check and the name of the bot in the text
LegacyEntry ==
    /\ pc = "legacy_on_message"
    /\ IF msg.author = "bot"
       THEN pc' = "returned" /\ UNCHANGED local
       ELSE /\ local' = [local EXCEPT !.content_lower = Lower(msg.content)]
            /\ pc' = IF Contains(Lower(msg.content), <<"f", "i", "r", "e", "b", "o", "t">>)
                     THEN "legacy_answer" ELSE "returned"
    /\ UNCHANGED <<msg, sent, calls, handled>>
    /\ UNCHANGED <<split, search, retrieval, assets, loop>>

\* The embeddings calls of get_top_k_results_text (lines 82-90) as
\* on_message sees them: k attempts, the last of which succeeds, or
\* max_retries attempts that all fail (see SpecTopK).
EmbedAttempts(k) == [i \in 1..k |-> "embed"]

\* lines 256-284: with attachments, process_message_with_images when one is
\* an image by its file name and nothing otherwise; with none,
\* process_message and one send of the whole reply (an empty text is
\* refused by the send)
LegacyAnswer ==
    /\ pc = "legacy_answer"
    /\ IF msg.attachments # <<>>
       THEN IF ImagesByFilename(msg) = <<>>
            THEN pc' = "returned" /\ UNCHANGED <<local, sent, calls>>
            ELSE /\ sent' = sent
                 /\ \E out \in GenOutcomes :
                       /\ calls' = Append(calls, "generate")
                       /\ IF Failed(out)
                          THEN pc' = "raised" /\ local' = local
                          ELSE StartSend(out.text, FALSE, "returned")
       ELSE /\ local' = local
            /\ \/ /\ calls' = calls \o EmbedAttempts(max_retries)
                  /\ pc' = "raised"
                  /\ sent' = sent
               \/ \E k \in 1..max_retries : \E out \in GenOutcomes :
                     /\ calls' = calls \o EmbedAttempts(k) \o <<"generate">>
                     /\ IF Failed(out) \/ out.text = <<>>
                        THEN pc' = "raised" /\ sent' = sent
                        ELSE /\ sent' = Append(sent, Entry("reply", out.text))
                             /\ pc' = "returned"
    /\ UNCHANGED <<msg, handled>>
    /\ UNCHANGED <<split, search, retrieval, assets, loop>>

(***************************************************************************)
(* The slash commands /analyze_user, /web_search and /gotc                 *)
(* (src/openai/app.py 975-996, 1108-1195, 1201-1244).  The responses to    *)
(* the interaction (defer, send_message) are recorded in calls next to the *)
(* external calls; what followup.send and send_message are given is       *)
(* recorded in sent.                                                       *)
(***************************************************************************)
SlashTexts == { <<"A">>, <<"<", "@", "1", ">", " ", "a">> }

\* re.findall(r'<@!?(\d+)>', text) finds a mention (the model's one id is 1).
MentionForms == { <<"<", "@", "1", ">">>, <<"<", "@", "!", "1", ">">> }
HasMention(text) == \E form \in MentionForms : Contains(text, form)

\* user.name of the member that fetch_member returns
FetchedName == <<"a", "b">>

\* lines 1124-1129: every mention replaced by the name of the member
RECURSIVE SubMentions(_, _)
SubMentions(text, forms) ==
    IF forms = {} THEN text
    ELSE LET form == CHOOSE f \in forms : TRUE
         IN SubMentions(Replace(text, form, FetchedName), forms \ {form})

\* The interactions of the model: the image parameter of /gotc is None or
\* one attachment.
SlashInteractions ==
    { [event |-> "slash_command", command |-> c, author |-> "user",
       content |-> t, attachments |-> <<>>, mentions |-> <<>>,
       reply_to_bot |-> FALSE] :
          c \in {"analyze_user", "web_search"}, t \in SlashTexts }
    \cup
    { [event |-> "slash_command", command |-> "gotc", author |-> "user",
       content |-> <<"A">>, attachments |-> a, mentions |-> <<>>,
       reply_to_bot |-> FALSE] : a \in Attachments }

\* The gateway delivers an interaction of one of the three commands.
ReceiveSlash ==
    /\ pc \in {"idle", "returned", "raised"}
    /\ handled < MaxMessages
    /\ \E m \in SlashInteractions : msg' = m
    /\ pc' = "slash"
    /\ local' = InitLocal
    /\ sent' = <<>>
    /\ calls' = <<>>
    /\ handled' = handled + 1
    /\ UNCHANGED <<split, search, retrieval, assets, loop>>

\* lines 1116-1136: the mentions of /analyze_user are resolved with
\* fetch_member; an exception there is answered with send_message
AnalyzeUserMentions ==
    IF HasMention(msg.content)
    THEN \/ /\ calls' = Append(calls, "fetch_member")
            /\ local' = [local EXCEPT !.content_lower =
                            Lower(SubMentions(msg.content, MentionForms))]
            /\ sent' = sent
            /\ pc' = "slash_defer"
         \/ /\ calls' = calls \o <<"fetch_member", "send_message">>
            /\ local' = local
            /\ sent' = Append(sent, Entry("input_error", <<"{e}">>))
            /\ pc' = "returned"
    ELSE /\ calls' = calls
         /\ local' = [local EXCEPT !.content_lower = Lower(msg.content)]
         /\ sent' = sent
         /\ pc' = "slash_defer"

\* lines 1214-1228: the image parameter of /gotc must have the name of an
\* image; otherwise send_message and return
GotcImage ==
    IF msg.attachments # <<>> /\ ImagesByFilename(msg) = <<>>
    THEN /\ calls' = Append(calls, "send_message")
         /\ local' = [local EXCEPT !.content_lower = Lower(msg.content)]
         /\ sent' = Append(sent, Entry("input_error", <<>>))
         /\ pc' = "returned"
    ELSE /\ calls' = calls
         /\ local' = [local EXCEPT !.content_lower = Lower(msg.content),
                                   !.image_urls = ImagesByFilename(msg)]
         /\ sent' = sent
         /\ pc' = "slash_defer"

\* What a command does before its try block with the defer.
SlashInput ==
    /\ pc = "slash"
    /\ CASE msg.command = "analyze_user" -> AnalyzeUserMentions
         [] msg.command = "gotc" -> GotcImage
         [] OTHER -> /\ calls' = calls
                     /\ local' = [local EXCEPT !.content_lower = Lower(msg.content)]
                     /\ sent' = sent
                     /\ pc' = "slash_defer"
    /\ UNCHANGED <<msg, handled>>
    /\ UNCHANGED <<split, search, retrieval, assets, loop>>

\* lines 988, 1139, 1234: await interaction.response.defer(), the first
\* statement of the try.  When it raises, the except clause calls
\* followup.send (lines 994-996, 1242-1244), which the platform may refuse
\* for an interaction that was not acknowledged; the except clause of
\* /analyze_user first formats what_user_username (line 1194), which no
\* statement has assigned yet, and so raises itself.
SlashDefer ==
    /\ pc = "slash_defer"
    /\ \/ /\ calls' = Append(calls, "defer")
          /\ sent' = sent
          /\ pc' = "slash_work"
       \/ /\ calls' = Append(calls, "defer_raised")
          /\ IF msg.command = "analyze_user"
             THEN sent' = sent /\ pc' = "raised"
             ELSE /\ sent' = Append(sent, Entry("error", <<"{e}">>))
                  /\ pc' \in {"returned", "raised"}
    /\ UNCHANGED <<msg, local, handled>>
    /\ UNCHANGED <<split, search, retrieval, assets, loop>>

\* lines 989-996 and 1236-1244: the answer and the loop of followup.send,
\* or the error
SlashAnswer ==
    \E out \in GenOutcomes :
        /\ calls' = calls \o SearchCalls \o <<"generate">>
        /\ IF Failed(out)
           THEN /\ sent' = Append(sent, Entry("error", <<"{e}">>))
                /\ pc' = "returned"
                /\ local' = local
           ELSE /\ sent' = sent
                /\ StartSend(out.text, TRUE, "returned")

\* lines 1141-1195: the language, the user, the notice, the comments, the
\* categories (a failure there is absorbed) and the analysis.  Until line
\* 1146 has assigned what_user_username the except clause raises itself.
SlashAnalyzeUser ==
    \/ /\ calls' = Append(calls, "extract")
       /\ sent' = sent /\ local' = local /\ pc' = "raised"
    \/ /\ \E who \in WhatUserOutcomes :
             IF Failed(who)
             THEN /\ calls' = calls \o <<"extract", "extract">>
                  /\ sent' = sent /\ local' = local /\ pc' = "raised"
             ELSE IF Get(who, "user", "none") = "none"
             THEN /\ calls' = calls \o <<"extract", "extract">>
                  /\ sent' = Append(sent, Entry("sorry_user", <<>>))
                  /\ local' = local /\ pc' = "returned"
             ELSE \/ /\ calls' = calls \o <<"extract", "extract", "history">>
                     /\ sent' = sent \o <<Entry("analyzing", <<>>),
                                          Entry("sorry_comments", <<>>)>>
                     /\ local' = local /\ pc' = "returned"
                  \/ \E out \in GenOutcomes :
                        /\ calls' = calls \o <<"extract", "extract", "history",
                                               "extract", "generate">>
                        /\ IF Failed(out)
                           THEN /\ sent' = sent \o <<Entry("analyzing", <<>>),
                                                     Entry("error", <<"{e}">>)>>
                                /\ pc' = "returned"
                                /\ local' = local
                           ELSE /\ sent' = Append(sent, Entry("analyzing", <<>>))
                                /\ StartSend(out.text, FALSE, "returned")

\* The body of the try after a defer that succeeded.
SlashWork ==
    /\ pc = "slash_work"
    /\ IF msg.command = "analyze_user" THEN SlashAnalyzeUser ELSE SlashAnswer
    /\ UNCHANGED <<msg, handled>>
    /\ UNCHANGED <<split, search, retrieval, assets, loop>>

Next ==
    \/ ReceiveMessage
    \/ ReceiveInteraction
    \/ CommandExtract
    \/ CommandRetry
    \/ CommandRun
    \/ ReceiveSlash
    \/ SlashInput
    \/ SlashDefer
    \/ SlashWork
    \/ ReceiveMessageOpen
    \/ OpenEntry
    \/ OpenImage
    \/ OpenParse
    \/ OpenAssetLookup
    \/ OpenAddressed
    \/ OpenGenerate
    \/ ReceiveMessageLegacy
    \/ LegacyEntry
    \/ LegacyAnswer
    \/ OnMessageEntry
    \/ BangCommands
    \/ AddressedCheck
    \/ GatherHistory
    \/ DecideFirst
    \/ DecideFirstFails
    \/ DecideRetry
    \/ DecideRetryFails
    \/ Dispatch
    \/ SummarizeExtract
    \/ SummarizeRetry
    \/ SummarizeRun
    \/ GotcBranch
    \/ TranslationBranch
    \/ AboutChatBranch
    \/ AboutMeBranch
    \/ AnalyzeUserWho
    \/ AnalyzeUserRun
    \/ HumorBranch
    \/ GenerateImageRequest
    \/ GenerateImageRun
    \/ HelpBranch
    \/ NoneBranch
    \/ CalendarBranch
    \/ CalendarLink
    \/ ElseNotice
    \/ ElseAnswer
    \/ SendPart
    \/ ParseCommand
    \/ AssetLookup

Spec == InitMain /\ [][Next]_vars

(***************************************************************************)
(* Properties of on_message (openai variant), checked under Spec.          *)
(***************************************************************************)
Kinds(log) == {log[i].kind : i \in 1..Len(log)}
CallKinds == {calls[i] : i \in 1..Len(calls)}
NumCalls(kind) == Cardinality({i \in 1..Len(calls) : calls[i] = kind})
Handling == pc \notin {"idle", "on_message"} /\ msg.event = "on_message"

\* What on_message has sent before it reaches the addressed check.
SentBeforeRouting == BangReplies(Strip(Lower(msg.content)))

\* What on_message has sent after the bang-command section.
SentSinceRouting == SubSeq(sent, Len(SentBeforeRouting) + 1, Len(sent))

\* C2: every chunk of a handler reply that is passed to channel.send, after
\* any URL wrapping by prevent_url_embeds, has at most the platform limit of
\* characters (2000 in the source, ScaledLimit here).
C2_SentWithinLimit ==
    \A i \in 1..Len(sent) :
        sent[i].kind = "reply" => Len(sent[i].text) <= ScaledLimit

\* C3: when decide_what_to_do fails on the first attempt and on the single
\* retry, an error message is sent, on_message ends there, no handler runs
\* and no generation call is made; the decision does not fall back to none.
C3_GiveUpAborts ==
    local.failures = 2 =>
        /\ pc = "raised"
        /\ sent = Append(SentBeforeRouting, Entry("error", <<"{e}">>))
        /\ calls = <<"history", "classify", "classify">>
        /\ local.todo = NoValue

\* Both classification attempts have failed.
C3_Witness == pc = "raised" /\ local.failures = 2 /\ NumCalls("classify") = 2

\* C4: when the decision is todo = translate, the translate handler is the
\* branch taken: the message is not treated as an unrecognized intent, so
\* the else branch is not entered and its notice is not sent.
C4_TranslateDispatched ==
    (Handling /\ local.todo = "translate") =>
        /\ pc \notin {"else", "else_answer"}
        /\ "sorry_request" \notin Kinds(sent)

\* The message addresses the bot: its name followed by a space or a comma
\* is in the text, or the bot is mentioned, or the message replies to the bot.
Addresses(m) ==
    \/ Contains(Strip(Lower(m.content)), NAME_OF_BOT \o <<" ">>)
    \/ Contains(Strip(Lower(m.content)), NAME_OF_BOT \o <<",">>)
    \/ bot_mentioned_by_mention(m)
    \/ bot_replied_to(m)

\* C5: a classification or generation call is made only for a message that
\* addresses the bot.
C5_CallsOnlyWhenAddressed ==
    (Handling /\ CallKinds \cap {"classify", "generate"} # {}) => Addresses(msg)

\* C6 as stated: with todo = none nothing at all is sent from the
\* classification step until on_message returns, whatever the text.
C6_NoneSendsNothing ==
    (Handling /\ local.todo = "none") => sent = SentBeforeRouting

\* C6 as amended: with todo = none the none branch sends nothing; the only
\* messages sent from the classification step until on_message returns are
\* asset links of the asset lookup that follows, and none is sent when the
\* message matches a skip condition or has no command word.
C6_NoneSendsOnlyAssetLinks ==
    (Handling /\ local.todo = "none") =>
        /\ Len(sent) >= Len(SentBeforeRouting)
        /\ SubSeq(sent, 1, Len(SentBeforeRouting)) = SentBeforeRouting
        /\ Kinds(SentSinceRouting) \subseteq {"asset"}
        /\ SentSinceRouting # <<>> =>
              /\ ~skip_conditions(Strip(Lower(msg.content)))
              /\ CommandParts(Lower(msg.content)) # <<>>

\* A message classified none has been answered with an asset link.
C6_Witness ==
    /\ pc = "returned"
    /\ local.todo = "none"
    /\ SentSinceRouting # <<>>

(***************************************************************************)
(* all_in_one_search (src/openai/app.py 138-189).                          *)
(***************************************************************************)
\* A provider returns at most this many results in the model.
MaxResults == 2

\* One result of AsyncDDGS().atext.
DuckResult == [title |-> "t", href |-> "l", body |-> "s"]

\* Items of the Google response; keys may be missing.
GoogleItems ==
    { [title |-> "t", link |-> "l", snippet |-> "s", htmlSnippet |-> "h"],
      [title |-> "u"] }

\* What the DuckDuckGo call does: it returns a list, or raises (a rate
\* limit or HTTP 202, or any other error).
DuckBehaviours ==
    {[returns |-> [i \in 1..k |-> DuckResult]] : k \in 0..MaxResults}
    \cup {[raises |-> "rate limit"], [raises |-> "other"]}

\* What the Google call does: it returns a response with or without an
\* items entry, or raises (a quota error, a missing key).
GoogleBehaviours ==
    {[returns |-> [items |-> its]] : its \in SeqsUpTo(GoogleItems, MaxResults)}
    \cup {[returns |-> EmptyDict], [raises |-> "quota"]}

\* Python values of the helpers: None, a list, the empty string.
None == [none |-> TRUE]
PyList(s) == [list |-> s]
EmptyString == [str |-> <<>>]

\* lines 162-177: the except clause logs and returns None
duckduckgo_search(behaviour) ==
    IF "raises" \in DOMAIN behaviour THEN None
    ELSE PyList(behaviour.returns)

\* google_search without its except clause: the error leaves the helper.
google_search_unguarded(behaviour) ==
    IF "raises" \in DOMAIN behaviour THEN [raised |-> behaviour.raises]
    ELSE LET items == Get(behaviour.returns, "items", <<>>)
         IN PyList([i \in 1..Len(items) |->
                [title |-> Get(items[i], "title", None),
                 link |-> Get(items[i], "link", None),
                 snippet |-> Get(items[i], "snippet", None),
                 htmlsnippet |-> Get(items[i], "htmlSnippet", None)]])

\* lines 144-159: res.get('items', []) mapped to result dicts; the except
\* clause logs and returns None
google_search(behaviour) ==
    IF "raises" \in DOMAIN behaviour THEN None
    ELSE LET items == Get(behaviour.returns, "items", <<>>)
         IN PyList([i \in 1..Len(items) |->
                [title |-> Get(items[i], "title", None),
                 link |-> Get(items[i], "link", None),
                 snippet |-> Get(items[i], "snippet", None),
                 htmlsnippet |-> Get(items[i], "htmlSnippet", None)]])

\* bool(x) of a list or None
TruthyList(x) == x # None /\ x.list # <<>>

\* The selection with the second provider preferred.
SelectResultsGoogleFirst(duck_results, google_results) ==
    IF TruthyList(google_results) THEN [google |-> google_results.list]
    ELSE IF TruthyList(duck_results) THEN [duckduckgo |-> duck_results.list]
    ELSE EmptyString

\* lines 184-189
SelectResults(duck_results, google_results) ==
    IF TruthyList(duck_results) THEN [duckduckgo |-> duck_results.list]
    ELSE IF TruthyList(google_results) THEN [google |-> google_results.list]
    ELSE EmptyString

Queries == { <<"a">>, <<"b">> }

InitSearch ==
    /\ search \in [pc : {"call"}, message : Queries, duck : {None}, google : {None},
                   duck_results : {None}, google_results : {None},
                   result : {None}, order : {<<>>},
                   started : {<<>>}, in_flight : {{}}]
    \* the other components are not in use
    /\ loop = NoValue
    /\ pc = NoValue /\ msg = NoValue /\ local = NoValue
    /\ sent = NoValue /\ calls = NoValue /\ handled = NoValue
    /\ split = NoValue
    /\ retrieval = NoValue
    /\ assets = NoValue

\* An exception leaving a helper would leave all_in_one_search too.
SearchStep(next_pc, field, behaviour, value, name) ==
    IF "raised" \in DOMAIN value
    THEN search' = [search EXCEPT !.pc = "raised", ![field] = behaviour,
                                  !.order = Append(@, name),
                                  !.in_flight = @ \ {name}]
    ELSE search' = [search EXCEPT !.pc = next_pc, ![field] = behaviour,
                                  ![field \o "_results"] = value,
                                  !.order = Append(@, name),
                                  !.in_flight = @ \ {name}]

\* A helper is called: its query is in flight until the helper returns.
SearchStart(next_pc, name) ==
    search' = [search EXCEPT !.pc = next_pc,
                             !.started = Append(@, name),
                             !.in_flight = @ \cup {name}]

\* line 180: duckduckgo_search(message) is called and awaited
SearchDuckStart ==
    /\ search.pc = "call"
    /\ SearchStart("duck_waiting", "duckduckgo")
    /\ UNCHANGED <<mainVars, split, retrieval, assets, loop>>

\* line 180: duck_results = await duckduckgo_search(message)
SearchDuck ==
    /\ search.pc = "duck_waiting"
    /\ \E b \in DuckBehaviours :
          SearchStep("duck_done", "duck", b, duckduckgo_search(b), "duckduckgo")
    /\ UNCHANGED <<mainVars, split, retrieval, assets, loop>>

\* line 181: google_search(message, ...) is called once line 180 is over
SearchGoogleStart ==
    /\ search.pc = "duck_done"
    /\ SearchStart("google_waiting", "google")
    /\ UNCHANGED <<mainVars, split, retrieval, assets, loop>>

\* line 181: google_results = google_search(message, ...)
SearchGoogle ==
    /\ search.pc = "google_waiting"
    /\ \E b \in GoogleBehaviours :
          SearchStep("google_done", "google", b, google_search(b), "google")
    /\ UNCHANGED <<mainVars, split, retrieval, assets, loop>>

\* lines 184-189
SearchReturn ==
    /\ search.pc = "google_done"
    /\ search' = [search EXCEPT
                     !.pc = "returned",
                     !.result = SelectResults(search.duck_results,
                                              search.google_results)]
    /\ UNCHANGED <<mainVars, split, retrieval, assets, loop>>

NextSearch ==
    \/ SearchDuckStart
    \/ SearchDuck
    \/ SearchGoogleStart
    \/ SearchGoogle
    \/ SearchReturn

SpecSearch == InitSearch /\ [][NextSearch]_vars

\* The first provider's call returned a non-empty list.
DuckGaveResults ==
    "returns" \in DOMAIN search.duck /\ Len(search.duck.returns) > 0

\* The second provider's call returned a response with at least one item.
GoogleGaveResults ==
    /\ "returns" \in DOMAIN search.google
    /\ "items" \in DOMAIN search.google.returns
    /\ Len(search.google.returns.items) > 0

\* C7: all_in_one_search returns the first provider's results tagged
\* duckduckgo whenever that provider returned a non-empty list, whatever the
\* second did; the second provider's results tagged google when the first
\* returned nothing or failed and the second returned a non-empty list; and
\* the empty-result sentinel "" when both returned nothing or failed. No
\* provider failure ends the call with an error.
C7_SearchFallback ==
    /\ search.pc # "raised"
    /\ search.pc = "returned" =>
          IF DuckGaveResults
          THEN search.result = [duckduckgo |-> search.duck.returns]
          ELSE IF GoogleGaveResults
          THEN /\ DOMAIN search.result = {"google"}
               /\ Len(search.result.google) = Len(search.google.returns.items)
               /\ \A i \in 1..Len(search.result.google) :
                     search.result.google[i].title
                         = search.google.returns.items[i].title
          ELSE search.result = EmptyString

\* The first provider failed and the second one's results were returned.
C7_Witness ==
    /\ search.pc = "returned"
    /\ "raises" \in DOMAIN search.duck
    /\ GoogleGaveResults
    /\ "google" \in DOMAIN search.result

\* C19: in all_in_one_search an exception of either provider (a rate limit
\* and a quota error included) never keeps the other provider from being
\* called and never reaches the caller: both providers are called, first
\* one then the other, the call returns, and the provider that failed counts
\* as one that returned no results.
C19_ProvidersIsolated ==
    /\ search.pc # "raised"
    /\ search.pc \in {"google_done", "returned"} =>
          /\ search.order = <<"duckduckgo", "google">>
          /\ "raises" \in DOMAIN search.duck => search.duck_results = None
          /\ "raises" \in DOMAIN search.google => search.google_results = None
    /\ search.pc = "returned" =>
          /\ "raises" \in DOMAIN search.duck =>
                search.result = SelectResults(PyList(<<>>), search.google_results)
          /\ "raises" \in DOMAIN search.google =>
                search.result = SelectResults(search.duck_results, PyList(<<>>))

\* Both providers failed and the call returned the empty sentinel.
C19_Witness ==
    /\ search.pc = "returned"
    /\ "raises" \in DOMAIN search.duck
    /\ "raises" \in DOMAIN search.google
    /\ search.order = <<"duckduckgo", "google">>
    /\ search.result = EmptyString

(***************************************************************************)
(* get_top_k_results_text and retrieve (src/legacy/app.py 63-127).         *)
(***************************************************************************)
\* Largest corpus, largest n and largest limit_of_context of the model.
MaxCorpus == 4
MaxK == 3
MaxLimit == 4

\* line 89: sleep(5)
RetryDelay == 5
\* line 117: retrieve asks for n=3
RetrieveN == 3

\* Rows of the embeddings table: text, source, embedding. Embeddings are
\* integer vectors; only their direction matters to the cosine.
Rows ==
    { [text |-> <<"a">>, source |-> "s1", embedding |-> <<1, 0>>],
      [text |-> <<"b", "b">>, source |-> "s2", embedding |-> <<1, 1>>],
      [text |-> <<"c">>, source |-> "s1", embedding |-> <<2, 0>>] }

Corpora == SeqsUpTo(Rows, MaxCorpus)

\* Embeddings the embeddings call may return for the query.
QueryEmbeddings == { <<1, 0>>, <<-1, 0>> }

QueryTexts == { <<"q">> }

Dot(u, v) == u[1] * v[1] + u[2] * v[2]

\* cosine_similarity(q, e1) <= cosine_similarity(q, e2), compared exactly:
\* Dot(q, e) / |e| with the common factor 1 / |q| left out.
SimLeq(q, e1, e2) ==
    LET a == Dot(q, e1)
        b == Dot(q, e2)
        A == Dot(e1, e1)
        B == Dot(e2, e2)
    IN IF a <= 0 /\ b >= 0 THEN TRUE
       ELSE IF a > 0 /\ b < 0 THEN FALSE
       ELSE IF a > 0 THEN a * a * B <= b * b * A
       ELSE a * a * B >= b * b * A

\* The orders np.argsort may return for the rows in todo: each starts with a
\* row no other is less similar than, and goes on with an order of the rest.
\* The order of equal similarities is not specified.
RECURSIVE SortedOrders(_, _, _)
SortedOrders(df, q, todo) ==
    IF todo = {} THEN {<<>>}
    ELSE UNION { { <<i>> \o rest : rest \in SortedOrders(df, q, todo \ {i}) } :
                 i \in { k \in todo :
                            \A j \in todo :
                               SimLeq(q, df[k].embedding, df[j].embedding) } }

\* np.argsort(similarities[0]): the indices of df by ascending similarity
ArgSorts(df, q) == SortedOrders(df, q, 1..Len(df))

Reverse(s) == [i \in 1..Len(s) |-> s[Len(s) + 1 - i]]

\* s[-n:]
LastN(s, n) ==
    IF n = 0 \/ n >= Len(s) THEN s ELSE SubSeq(s, Len(s) - n + 1, Len(s))

\* The last n of the ascending order, left ascending.
TopKAscending(order, n) == LastN(order, n)

\* line 96: np.argsort(similarities[0])[-n:][::-1]
TopK(order, n) == Reverse(LastN(order, n))

\* f"{sources}" of a list of strings
ReprList(list) ==
    <<"[">> \o Join(<<", ">>, [i \in 1..Len(list) |-> <<"'", list[i], "'">>])
            \o <<"]">>

PromptHead ==
    "The following is additional context that might help in answering the users query.\n\nContext:\n "
SourcesMark == "\n\n Sources: "
QuestionMark == " Question: "
AnswerMark == "\nAnswer:"

\* The cut that keeps one character more than the limit.
TruncateInclusive(contexts, limit_of_context) ==
    Slice(contexts, 0, limit_of_context + 1)

\* line 120: contexts[:limit_of_context]
Truncate(contexts, limit_of_context) == Slice(contexts, 0, limit_of_context)

\* lines 123-126
BuildPrompt(contexts, sources, query) ==
    <<PromptHead>> \o contexts \o <<SourcesMark>> \o ReprList(sources)
        \o <<QuestionMark>> \o query \o <<AnswerMark>>

\* One of the functions is entered: get_top_k_results_text with any n, or
\* retrieve with any limit_of_context (and its n=3), or process_message of
\* the legacy variant, which calls retrieve with the default limit (3750 in
\* the source, the largest limit of the model here).
InitRetrieval ==
    /\ \E entry \in {"get_top_k_results_text", "retrieve", "process_message"},
          df \in Corpora, query \in QueryTexts, n \in 1..MaxK,
          limit \in 0..MaxLimit :
          /\ entry # "get_top_k_results_text" => n = RetrieveN
          /\ entry = "get_top_k_results_text" => limit = 0
          /\ entry = "process_message" => limit = MaxLimit
          /\ retrieval = [pc |-> "embed", entry |-> entry, df |-> df,
                          query |-> query, n |-> n, limit_of_context |-> limit,
                          retry_count |-> 0, slept |-> 0, calls |-> <<>>,
                          query_embedding |-> <<>>, top_k_indices |-> <<>>,
                          joined_text |-> <<>>, sources |-> <<>>,
                          contexts |-> <<>>, prompt |-> <<>>]
    \* the other components are not in use
    /\ loop = NoValue
    /\ pc = NoValue /\ msg = NoValue /\ local = NoValue
    /\ sent = NoValue /\ calls = NoValue /\ handled = NoValue
    /\ split = NoValue
    /\ search = NoValue
    /\ assets = NoValue

\* lines 82-85: the embeddings call succeeds
EmbedOk ==
    /\ retrieval.pc = "embed"
    /\ retrieval.retry_count < max_retries
    /\ \E e \in QueryEmbeddings :
          retrieval' = [retrieval EXCEPT !.pc = "embedded",
                                         !.calls = Append(@, "embed"),
                                         !.query_embedding = e]
    /\ UNCHANGED <<mainVars, split, search, assets, loop>>

\* lines 86-89: the embeddings call raises
EmbedFail ==
    /\ retrieval.pc = "embed"
    /\ retrieval.retry_count < max_retries
    /\ retrieval' = [retrieval EXCEPT !.retry_count = @ + 1,
                                      !.calls = Append(@, "embed"),
                                      !.slept = @ + RetryDelay]
    /\ UNCHANGED <<mainVars, split, search, assets, loop>>

\* The loop left after max_retries failures with a stand-in embedding.
EmbedExhaustedGoesOn ==
    /\ retrieval.pc = "embed"
    /\ retrieval.retry_count >= max_retries
    /\ retrieval' = [retrieval EXCEPT !.pc = "embedded",
                                      !.query_embedding = <<1, 0>>]
    /\ UNCHANGED <<mainVars, split, search, assets, loop>>

\* line 90 after max_retries failures: res was never assigned
EmbedExhausted ==
    /\ retrieval.pc = "embed"
    /\ retrieval.retry_count >= max_retries
    /\ retrieval' = [retrieval EXCEPT !.pc = "raised"]
    /\ UNCHANGED <<mainVars, split, search, assets, loop>>

\* lines 93-103; cosine_similarity rejects an empty table
Rank ==
    /\ retrieval.pc = "embedded"
    /\ IF retrieval.df = <<>>
       THEN retrieval' = [retrieval EXCEPT !.pc = "raised"]
       ELSE \E order \in ArgSorts(retrieval.df, retrieval.query_embedding) :
               LET top_k_indices == TopK(order, retrieval.n)
                   texts == [i \in 1..Len(top_k_indices) |->
                                retrieval.df[top_k_indices[i]].text]
               IN retrieval' =
                     [retrieval EXCEPT
                        !.pc = IF retrieval.entry = "get_top_k_results_text"
                               THEN "returned" ELSE "retrieved",
                        !.top_k_indices = top_k_indices,
                        !.joined_text = Join(<<" ">>, texts),
                        !.sources = [i \in 1..Len(top_k_indices) |->
                                        retrieval.df[top_k_indices[i]].source]]
    /\ UNCHANGED <<mainVars, split, search, assets, loop>>

\* lines 119-127
RetrieveReturn ==
    /\ retrieval.pc = "retrieved"
    /\ LET contexts == Truncate(retrieval.joined_text,
                                retrieval.limit_of_context)
       IN retrieval' =
             [retrieval EXCEPT
                !.pc = IF retrieval.entry = "process_message"
                       THEN "augmented" ELSE "returned",
                !.contexts = contexts,
                !.prompt = BuildPrompt(contexts, retrieval.sources,
                                       retrieval.query)]
    /\ UNCHANGED <<mainVars, split, search, assets, loop>>

\* process_message, lines 221-229: the completion on the augmented text
\* returns or raises
ProcessMessageGenerate ==
    /\ retrieval.pc = "augmented"
    /\ \E next_pc \in {"returned", "raised"} :
          retrieval' = [retrieval EXCEPT !.pc = next_pc,
                                         !.calls = Append(@, "generate")]
    /\ UNCHANGED <<mainVars, split, search, assets, loop>>

NextTopK ==
    \/ EmbedOk
    \/ EmbedFail
    \/ EmbedExhausted
    \/ Rank
    \/ RetrieveReturn
    \/ ProcessMessageGenerate

SpecTopK == InitRetrieval /\ [][NextTopK]_vars

\* get_top_k_results_text has returned.
TopKReturned == retrieval.pc \in {"retrieved", "returned"}

\* C8: for a corpus with at least n entries, get_top_k_results_text returns
\* exactly n distinct entries, none less similar to the query embedding than
\* an entry left out, ordered by non-increasing cosine similarity; the
\* joined text is their texts in that order separated by single spaces, and
\* the sources are theirs in the same order.
C8_TopKOrdered ==
    (TopKReturned /\ Len(retrieval.df) >= retrieval.n) =>
        LET df == retrieval.df
            q == retrieval.query_embedding
            top == retrieval.top_k_indices
            chosen == {top[i] : i \in 1..Len(top)}
        IN /\ Len(top) = retrieval.n
           /\ Cardinality(chosen) = retrieval.n
           /\ chosen \subseteq 1..Len(df)
           /\ \A i \in 1..(Len(top) - 1) :
                 SimLeq(q, df[top[i + 1]].embedding, df[top[i]].embedding)
           /\ \A i \in chosen, j \in (1..Len(df)) \ chosen :
                 SimLeq(q, df[j].embedding, df[i].embedding)
           /\ retrieval.joined_text
                 = Join(<<" ">>, [i \in 1..Len(top) |-> df[top[i]].text])
           /\ retrieval.sources = [i \in 1..Len(top) |-> df[top[i]].source]

\* Three entries of different similarity have been picked from a larger
\* corpus.
C8_Witness ==
    /\ TopKReturned
    /\ retrieval.n = 3
    /\ Len(retrieval.df) > 3
    /\ \E i \in 1..2 :
          ~SimLeq(retrieval.query_embedding,
                  retrieval.df[retrieval.top_k_indices[i]].embedding,
                  retrieval.df[retrieval.top_k_indices[i + 1]].embedding)

\* Position in the prompt of the mark that ends the context segment.
RECURSIVE MarkIndex(_, _)
MarkIndex(prompt, i) ==
    IF i > Len(prompt) \/ prompt[i] = SourcesMark THEN i
    ELSE MarkIndex(prompt, i + 1)

\* What the prompt holds between "Context:\n " and "\n\n Sources: ".
ContextSegment(prompt) == SubSeq(prompt, 2, MarkIndex(prompt, 1) - 1)

\* C9: the context segment of the prompt retrieve returns is the first
\* limit_of_context characters of the retrieved context when the context is
\* longer than that, and the whole context otherwise.
C9_ContextTruncated ==
    (retrieval.entry = "retrieve" /\ retrieval.pc = "returned") =>
        LET segment == ContextSegment(retrieval.prompt)
            original == retrieval.joined_text
            L == retrieval.limit_of_context
        IN /\ retrieval.prompt[1] = PromptHead
           /\ MarkIndex(retrieval.prompt, 1) <= Len(retrieval.prompt)
           /\ IF Len(original) > L
              THEN Len(segment) = L /\ segment = SubSeq(original, 1, L)
              ELSE segment = original

\* A context longer than a positive limit has been cut.
C9_Witness ==
    /\ retrieval.entry = "retrieve"
    /\ retrieval.pc = "returned"
    /\ retrieval.limit_of_context > 0
    /\ Len(retrieval.joined_text) > retrieval.limit_of_context
    /\ Len(ContextSegment(retrieval.prompt)) = retrieval.limit_of_context

\* Index of the last "." of a file name, 0 when it has none.
RECURSIVE LastDot(_, _)
LastDot(name, i) ==
    IF i = 0 \/ name[i] = "." THEN i ELSE LastDot(name, i - 1)

\* A file name minus its extension, whatever the extension's length.
Stem(name) ==
    LET dot == LastDot(name, Len(name))
    IN IF dot = 0 THEN name ELSE SubSeq(name, 1, dot - 1)

\* The listed keys relative to the prefix, in listing order.
ListedPaths ==
    IF "Contents" \in DOMAIN assets.response
    THEN [i \in 1..Len(assets.response.Contents) |->
             Slice(assets.response.Contents[i], Len(S3_PREFIX),
                   Len(assets.response.Contents[i]))]
    ELSE <<>>

IsSingle(path) == ~Contains(path, <<"/">>)

\* The links of the listed paths of directory dir, in listing order.
RECURSIVE DirLinks(_, _)
DirLinks(paths, dir) ==
    IF paths = <<>> THEN <<>>
    ELSE (IF ~IsSingle(Head(paths))
             /\ Lower(Head(SplitOn(Head(paths), "/"))) = dir
          THEN <<BASE_URL \o Head(paths)>> ELSE <<>>)
         \o DirLinks(Tail(paths), dir)

\* C10: build_assets_map_s3 gives every listed key without a path separator
\* an entry named by its file name minus the extension, lower-cased, whatever
\* the extension's length, linking to that file; every other key is in the
\* list of its lower-cased first path segment, each list in listing order.
C10_AssetsMap ==
    assets.pc = "done" =>
        LET paths == ListedPaths
            singles == {i \in 1..Len(paths) : IsSingle(paths[i])}
            dirs == {Lower(Head(SplitOn(paths[i], "/"))) :
                        i \in (1..Len(paths)) \ singles}
        IN /\ DOMAIN assets.maps.name_to_link
                 = {Lower(Stem(paths[i])) : i \in singles}
           /\ \A i \in singles :
                 \E j \in singles :
                    /\ Lower(Stem(paths[j])) = Lower(Stem(paths[i]))
                    /\ StartsWith(assets.maps.name_to_link[Lower(Stem(paths[i]))],
                                  BASE_URL \o paths[j])
           /\ DOMAIN assets.maps.dir_to_links = dirs
           /\ \A d \in dirs : assets.maps.dir_to_links[d] = DirLinks(paths, d)

\* The same statement for listings of .png files only.
C10_PngListing ==
    (\A i \in 1..Len(ListedPaths) : EndsWith(ListedPaths[i], PngSuffix))
        => C10_AssetsMap

(***************************************************************************)
(* Properties of chunking and URL wrapping, checked under SpecSplit.       *)
(***************************************************************************)
\* Number of characters of the message in the chunks before chunk k.
RECURSIVE LengthBefore(_, _)
LengthBefore(parts, k) ==
    IF k <= 1 THEN 0 ELSE LengthBefore(parts, k - 1) + Len(parts[k - 1])

\* C11: when a reply is split into chunks, every run https?://non-whitespace
\* of the reply lies entirely within one chunk, so that it is wrapped whole
\* in < > in the message that carries it.
C11_UrlsNotSplit ==
    split.pc = "wrapped" =>
        \A i \in 1..Len(split.in.message) :
            LET n == UrlMatchLen(split.in.message, i)
            IN n > 0 =>
                  \E k \in 1..Len(split.parts) :
                     /\ LengthBefore(split.parts, k) < i
                     /\ i + n - 1 <= LengthBefore(split.parts, k) + Len(split.parts[k])
                     /\ Contains(split.wrapped[k],
                                 <<"<">> \o SubSeq(split.in.message, i, i + n - 1)
                                         \o <<">">>)

(***************************************************************************)
(* Properties of the embedding retries, checked under SpecTopK.            *)
(***************************************************************************)
\* Number of embeddings calls made so far.
EmbedCalls ==
    Cardinality({i \in 1..Len(retrieval.calls) : retrieval.calls[i] = "embed"})

InSendLoop == local.kind = "reply" /\ pc \in {"send_loop", local.after}

\* What the loop passes to send for one chunk.
Outbound(part) == IF local.wrap THEN prevent_url_embeds(part) ELSE part

\* C12: the chunks of one reply are sent in their order in the reply, one
\* awaited send after the other with nothing sent in between: while a send
\* loop runs, the chunks still to send are a suffix of split_message(reply)
\* and the last messages sent are exactly the chunks before that suffix, in
\* order. This holds for the loops of the openai on_message handlers, of
\* the /summarize command and of the open-source on_message.
C12_ChunksSentInOrder ==
    InSendLoop =>
        LET all == split_message(local.reply, ScaledLimit)
            done == Len(all) - Len(local.parts)
        IN /\ done >= 0
           /\ local.parts = SubSeq(all, done + 1, Len(all))
           /\ Len(sent) >= done
           /\ \A i \in 1..done :
                 sent[Len(sent) - done + i] = Entry("reply", Outbound(all[i]))

\* A reply of several chunks has been sent to its end.
C12_Witness ==
    /\ InSendLoop
    /\ pc = local.after
    /\ Len(split_message(local.reply, ScaledLimit)) >= 2
    /\ Len(sent) >= 2

(***************************************************************************)
(* The else branch of on_message (src/openai/app.py 1747-1774).            *)
(***************************************************************************)
\* The handled message went to the else branch.
InElse == Handling /\ local.todo # NoValue /\ Branch(local.todo) = "else"

\* The else branch has ended without an exception.
ElseDone == InElse /\ pc \in {"skip", "assets", "returned"}

\* The else branch has sent its notice first, then made the generation call
\* of the domain handler and sent the reply it returned.
ElseAnswered ==
    /\ SentSinceRouting # <<>>
    /\ Head(SentSinceRouting) = Entry("sorry_request", <<>>)
    /\ "generate" \in CallKinds
    /\ local.reply # <<>> => "reply" \in Kinds(Tail(SentSinceRouting))

\* C13: for a todo that no branch recognizes, on_message first sends the
\* "I didn't understand" notice and then goes on with the domain handler,
\* which produces and sends a reply for every such message.
C13_ElseNoticeThenAnswer == ElseDone => ElseAnswered

\* The same for the messages that carry no attachment, or an attachment
\* whose file name is an image's.
C13_ElseAnswersImagesAndText ==
    (ElseDone /\ (msg.attachments = <<>> \/ ImagesByFilename(msg) # <<>>))
        => ElseAnswered

(***************************************************************************)
(* Image generation failures (src/openai/app.py 1700-1715,                 *)
(* src/open-source/open-app.py 401-435).                                   *)
(***************************************************************************)
\* The image step of the handled message ran and gave no image.
ImageFailed == pc # "idle" /\ local.image_outcome \notin {NoValue, "url"}

\* The text of the exception, as an f-string puts it into a message.
ErrorText == "{e}"

\* A fixed apology was sent and no message sent holds the error text.
FixedApologyOnly ==
    /\ \E i \in 1..Len(sent) : sent[i].kind \in {"apology", "censored"}
    /\ \A i \in 1..Len(sent) :
          \A j \in 1..Len(sent[i].text) : sent[i].text[j] # ErrorText

\* C14: in every variant, when image generation fails (the generation call
\* raises, the download or the upload fails) or the moderation rejects the
\* image, the user is sent a fixed apology and never the text of the error.
C14_ImageFailureFixedApology == ImageFailed => FixedApologyOnly

\* The same for the openai variant alone.
C14_OpenaiImageFailureApology ==
    (ImageFailed /\ msg.event = "on_message") => FixedApologyOnly

(***************************************************************************)
(* The summarize handler: the branch of on_message (src/openai/app.py      *)
(* 1527-1556) and the /summarize command (lines 940-970).                  *)
(***************************************************************************)
\* The summarize handler is handling the message or the interaction.
InSummarize ==
    /\ pc \notin {"idle", "on_message", "command"}
    /\ \/ msg.event = "summarize_command"
       \/ msg.event = "on_message" /\ local.todo = "summarize" /\ pc # "summarize"

\* The position in calls of the first extraction call.
FirstExtract ==
    CHOOSE i \in 1..Len(calls) :
        calls[i] = "extract" /\ \A j \in 1..(i - 1) : calls[j] # "extract"

\* The calls of the handler from its first extraction call on, the listing
\* of the asset lookup that follows the branch of on_message left aside.
CallsSinceExtract ==
    SelectSeq(SubSeq(calls, FirstExtract, Len(calls)), LAMBDA c : c # "s3_list")

\* The handler waits for its retry, has given up, or has its parameters.
RetryPending == pc \in {"summarize_retry", "command_retry"}
GaveUp == "error" \in Kinds(sent)
Extracted == local.json_call_for_summarize_function # Unbound

\* C15: in the summarize handler (the on_message branch and the /summarize
\* command) a failed parameter extraction is retried exactly once; when the
\* retry fails too, the error message is sent and the handler returns with
\* no channel-history fetch and no summarization call; when either attempt
\* succeeds, no error message is sent and the handler goes on to the
\* summary with the JSON of that attempt: int() of its values, the history
\* fetch, the summarization call.
C15_SummarizeExtractionRetry ==
    InSummarize =>
        /\ NumCalls("extract") \in {1, 2}
        /\ RetryPending => NumCalls("extract") = 1 /\ ~Extracted /\ ~GaveUp
        /\ GaveUp <=> (NumCalls("extract") = 2 /\ ~Extracted)
        /\ GaveUp =>
              /\ pc = "returned"
              /\ sent[Len(sent)] = Entry("error", <<"{e}">>)
              /\ CallsSinceExtract = <<"extract", "extract">>
        /\ Extracted =>
              /\ ~GaveUp
              /\ \/ CallsSinceExtract \in {<<"extract">>, <<"extract", "extract">>}
                 \/ /\ IsInt(Get(local.json_call_for_summarize_function, "days", "0"))
                    /\ IsInt(Get(local.json_call_for_summarize_function, "hours", "0"))
                    /\ SubSeq(CallsSinceExtract, 1, Len(CallsSinceExtract) - 2)
                          \in {<<"extract">>, <<"extract", "extract">>}
                    /\ SubSeq(CallsSinceExtract, Len(CallsSinceExtract) - 1,
                              Len(CallsSinceExtract)) = <<"history", "generate">>

\* Both attempts of the /summarize command have failed.
C15_Witness ==
    /\ InSummarize
    /\ msg.event = "summarize_command"
    /\ GaveUp
    /\ NumCalls("extract") = 2

\* The retry of the on_message branch has succeeded and the summary was sent.
C15_WitnessRetrySucceeds ==
    /\ InSummarize
    /\ msg.event = "on_message"
    /\ NumCalls("extract") = 2
    /\ Extracted
    /\ "reply" \in Kinds(sent)

(***************************************************************************)
(* Bang-commands and the asset lookup against the intent routing           *)
(* (src/openai/app.py 1327-1446, 1776-1835;                                *)
(* src/open-source/open-app.py 471-519).                                   *)
(***************************************************************************)
\* The message starts with !help, !calendar or !calender.
IsBangCommand(m) ==
    \/ StartsWith(Strip(Lower(m.content)), <<"!", "h", "e", "l", "p">>)
    \/ StartsWith(Strip(Lower(m.content)), <<"!", "c", "a", "l", "e", "n", "d", "a", "r">>)
    \/ StartsWith(Strip(Lower(m.content)), <<"!", "c", "a", "l", "e", "n", "d", "e", "r">>)

\* C16: a message that starts with !help, !calendar or !calender is
\* answered with the fixed reply of the bang-command only, and handling it
\* makes no classification call and no generation call.
C16_BangShortCircuit ==
    (Handling /\ msg.author # "bot" /\ IsBangCommand(msg)) =>
        /\ CallKinds \cap {"classify", "generate"} = {}
        /\ pc # "bang" => sent = SentBeforeRouting

\* The intent routing has handled the message: a branch other than none was
\* taken for it.
IntentHandled == local.todo \notin {NoValue, "none"}

\* The position in calls of the first listing of the asset lookup.
FirstListing ==
    CHOOSE i \in 1..Len(calls) :
        calls[i] = "s3_list" /\ \A j \in 1..(i - 1) : calls[j] # "s3_list"

\* C17: the asset map is consulted only after the intent routing has
\* declined the message: for a message an intent handler has handled no
\* listing is made and no asset link is sent, and in no variant is the
\* listing made before the intent routing (the classification or the
\* generation call of the addressed path).
C17_AssetsOnlyAfterDecline ==
    (pc # "idle" /\ msg.event \in {"on_message", "open_on_message"}) =>
        /\ IntentHandled =>
              "s3_list" \notin CallKinds /\ "asset" \notin Kinds(sent)
        /\ "s3_list" \in CallKinds =>
              \A j \in (FirstListing + 1)..Len(calls) :
                  calls[j] \notin {"classify", "generate"}

\* The second half alone: no listing before the intent routing.
C17_NoListingBeforeRouting ==
    (pc # "idle" /\ "s3_list" \in CallKinds) =>
        \A j \in (FirstListing + 1)..Len(calls) :
            calls[j] \notin {"classify", "generate"}

\* The first half alone, for the openai variant.
C17_NoListingWhenHandled ==
    (Handling /\ IntentHandled) => "s3_list" \notin CallKinds

(***************************************************************************)
(* SpecLoop: the event loop of client.run (src/openai/app.py 1839,         *)
(* src/legacy/app.py 290) running the handlers of several inbound          *)
(* messages. The loop has one thread: a handler keeps it until it awaits;  *)
(* a call that is not awaited keeps it for as long as the call lasts.      *)
(***************************************************************************)
\* Number of inbound messages whose handlers the loop runs.
MaxHandlers == 2

Handlers == 1..MaxHandlers

\* One external call or delay of a handler: awaited (the coroutine is
\* suspended and the loop is released) or called in place (the thread of
\* the loop is inside the call until it returns).
Awaited(call) == [call |-> call, mode |-> "await"]
InPlace(call) == [call |-> call, mode |-> "block"]

\* src/openai/app.py 243-260 with all_in_one_search (138-189): the awaited
\* AsyncDDGS().atext, the .execute() of the Google client, the
\* ai_client.chat.completions.create of the synchronous client, and the
\* awaited channel.send of the caller
process_message ==
    << Awaited("duckduckgo"), InPlace("google"), InPlace("completion"),
       Awaited("send") >>

\* src/openai/app.py 191-232: time.sleep(1), then the completion
process_message_with_images ==
    << InPlace("sleep"), InPlace("completion"), Awaited("send") >>

\* src/openai/app.py 420-436 and 1529-1556: the extraction and the
\* completion run through asyncio.to_thread
summarize ==
    << Awaited("extract"), Awaited("history"), Awaited("completion"),
       Awaited("send") >>

\* src/legacy/app.py 76-90 and 207-229: an embeddings call that fails,
\* sleep(5), the embeddings call again, the completion, the send
legacy_process_message ==
    << InPlace("embeddings"), InPlace("sleep"), InPlace("embeddings"),
       InPlace("completion"), Awaited("send") >>

Programs ==
    { process_message, process_message_with_images, summarize,
      legacy_process_message }

\* A handler: none (no message yet), arrived (its message is in, the
\* handler has not started), running, suspended (an awaited call is in
\* progress), ready (the awaited call is over), blocked (a call in place is
\* in progress), done.
InitLoop ==
    /\ loop = [running |-> 0,
               handler |-> [h \in Handlers |->
                              [state |-> "none", program |-> <<>>, at |-> 0]]]
    \* the other components are not in use
    /\ pc = NoValue /\ msg = NoValue /\ local = NoValue
    /\ sent = NoValue /\ calls = NoValue /\ handled = NoValue
    /\ split = NoValue
    /\ search = NoValue
    /\ retrieval = NoValue
    /\ assets = NoValue

\* The gateway has a message for the bot.
Arrive(h) ==
    /\ loop.handler[h].state = "none"
    /\ \E p \in Programs :
          loop' = [loop EXCEPT !.handler[h] =
                      [state |-> "arrived", program |-> p, at |-> 0]]
    /\ UNCHANGED <<mainVars, split, search, retrieval, assets>>

\* The loop, when no handler holds it, starts the handler of a message.
StartHandler(h) ==
    /\ loop.running = 0
    /\ loop.handler[h].state = "arrived"
    /\ loop' = [loop EXCEPT !.running = h,
                            !.handler[h].state = "running",
                            !.handler[h].at = 1]
    /\ UNCHANGED <<mainVars, split, search, retrieval, assets>>

\* The running handler reaches its next external call: an awaited call
\* suspends it and releases the loop, a call in place keeps the loop.
CallExternal(h) ==
    /\ loop.running = h
    /\ loop.handler[h].state = "running"
    /\ loop.handler[h].at <= Len(loop.handler[h].program)
    /\ IF loop.handler[h].program[loop.handler[h].at].mode = "await"
       THEN loop' = [loop EXCEPT !.running = 0,
                                 !.handler[h].state = "suspended"]
       ELSE loop' = [loop EXCEPT !.handler[h].state = "blocked"]
    /\ UNCHANGED <<mainVars, split, search, retrieval, assets>>

\* The external call or the delay is over.
ExternalReturns(h) ==
    /\ loop.handler[h].state \in {"suspended", "blocked"}
    /\ IF loop.handler[h].state = "suspended"
       THEN loop' = [loop EXCEPT !.handler[h].state = "ready"]
       ELSE loop' = [loop EXCEPT !.handler[h].state = "running",
                                 !.handler[h].at = @ + 1]
    /\ UNCHANGED <<mainVars, split, search, retrieval, assets>>

\* The loop, when no handler holds it, resumes a handler whose awaited
\* call is over.
Resume(h) ==
    /\ loop.running = 0
    /\ loop.handler[h].state = "ready"
    /\ loop' = [loop EXCEPT !.running = h,
                            !.handler[h].state = "running",
                            !.handler[h].at = @ + 1]
    /\ UNCHANGED <<mainVars, split, search, retrieval, assets>>

\* The running handler returns.
Return(h) ==
    /\ loop.running = h
    /\ loop.handler[h].state = "running"
    /\ loop.handler[h].at > Len(loop.handler[h].program)
    /\ loop' = [loop EXCEPT !.running = 0, !.handler[h].state = "done"]
    /\ UNCHANGED <<mainVars, split, search, retrieval, assets>>

NextLoop ==
    \/ \E h \in Handlers : Arrive(h)
    \/ \E h \in Handlers : StartHandler(h)
    \/ \E h \in Handlers : CallExternal(h)
    \/ \E h \in Handlers : ExternalReturns(h)
    \/ \E h \in Handlers : Resume(h)
    \/ \E h \in Handlers : Return(h)

SpecLoop == InitLoop /\ [][NextLoop]_vars

\* Handler h is inside an external call or a delay.
Waiting(h) == loop.handler[h].state \in {"suspended", "blocked"}

\* Handler h can take its next step as soon as the loop picks it.
CanProceed(h) ==
    /\ loop.handler[h].state = "arrived" => ENABLED StartHandler(h)
    /\ loop.handler[h].state = "ready" => ENABLED Resume(h)

\* No handler is executing statements of its own between two calls.
NoneRunning == \A g \in Handlers : loop.handler[g].state # "running"

\* Every call of the program is awaited.
AllAwaited(program) ==
    \A i \in 1..Len(program) : program[i].mode = "await"

\* C20: while the handler of one message is inside an external call or a
\* delay, the handler of another message can start and can go on: no
\* handler keeps the event loop across a network call or a sleep.
C20_HandlersDoNotBlock ==
    \A h \in Handlers : \A other \in Handlers \ {h} :
        (Waiting(h) /\ NoneRunning) => CanProceed(other)

\* The same when every handler runs a program whose calls are all awaited.
C20_AwaitedCallsDoNotBlock ==
    \A h \in Handlers : \A other \in Handlers \ {h} :
        (/\ Waiting(h)
         /\ NoneRunning
         /\ \A g \in Handlers : AllAwaited(loop.handler[g].program))
        => CanProceed(other)

\* One handler is inside an awaited call while the other one starts.
C20_AwaitedWitness ==
    \E h \in Handlers : \E other \in Handlers \ {h} :
        /\ loop.handler[h].state = "suspended"
        /\ loop.handler[other].state = "running"
        /\ loop.handler[other].at = 1

(***************************************************************************)
(* The classification step of on_message (src/openai/app.py 1510-1522).    *)
(***************************************************************************)
\* The first classification call failed and the retry returned a decision.
RetryDecided ==
    /\ Handling
    /\ local.failures = 1
    /\ NumCalls("classify") = 2

\* C25: decide_what_to_do is called at most twice for one inbound message;
\* when the first call fails and the retry succeeds, nothing is sent by the
\* classification step and the dispatch uses the todo and the language of
\* the decision the retry returned.
C25_RetryDecisionDispatched ==
    Handling =>
        /\ NumCalls("classify") <= 2
        /\ NumCalls("classify") = 2 => local.failures \in {1, 2}
        /\ RetryDecided =>
              /\ local.json \in Decisions
              /\ pc = "dispatch" => sent = SentBeforeRouting
              /\ pc # "dispatch" =>
                    /\ local.todo = Get(local.json, "todo", "none")
                    /\ local.language = Get(local.json, "language", "english")
                    /\ Len(sent) >= Len(SentBeforeRouting)
                    /\ SubSeq(sent, 1, Len(SentBeforeRouting)) = SentBeforeRouting

\* After a failed first call the retry's decision was dispatched and its
\* handler has replied.
C25_Witness ==
    /\ RetryDecided
    /\ pc = "returned"
    /\ local.todo = "gotc"
    /\ "reply" \in Kinds(sent)

(***************************************************************************)
(* The calendar branch of on_message (src/openai/app.py 1732-1745).        *)
(***************************************************************************)
InCalendar == Handling /\ local.todo = "calendar"

\* The calendar branch is over and on_message has gone on to the asset
\* lookup or has ended in it.
CalendarDone ==
    \/ pc \in {"skip", "assets", "returned"}
    \/ pc = "send_loop" /\ local.kind = "asset"
    \/ pc = "raised" /\ "s3_list" \in CallKinds

DomainDone ==
    /\ Handling
    /\ local.todo # NoValue
    /\ Branch(local.todo) \in {"gotc", "else"}
    /\ pc \in {"skip", "assets", "returned"}

\* C23: for a dispatched message the domain handler makes exactly one
\* reply-producing generation call, whatever attachments the message
\* carries: none, images, or only files that are not images.
C23_OneGenerationCall == DomainDone => NumCalls("generate") = 1

\* The same for the messages that carry no attachment, or an attachment
\* whose file name is an image's.
C23_OneCallForImagesAndText ==
    (DomainDone /\ (msg.attachments = <<>> \/ ImagesByFilename(msg) # <<>>))
        => NumCalls("generate") = 1

(***************************************************************************)
(* Messages of the bot itself (src/openai/app.py 1310-1314,                *)
(* src/open-source/open-app.py 303-307, src/legacy/app.py 248-249).        *)
(***************************************************************************)
\* on_message of one of the three variants is handling a message of the bot.
OwnMessage ==
    /\ pc # "idle"
    /\ msg.event \in {"on_message", "open_on_message", "legacy_on_message"}
    /\ msg.author = "bot"

\* C28: in every variant on_message sends nothing and makes no external
\* call for a message whose author is the bot itself: it returns at its
\* first statement, whatever the text of the message.
C28_OwnMessagesIgnored ==
    OwnMessage =>
        /\ sent = <<>>
        /\ calls = <<>>
        /\ pc \in {"on_message", "open_on_message", "legacy_on_message",
                   "returned"}

\* The bot's own '!help' text has been received and dropped.
C28_Witness ==
    /\ OwnMessage
    /\ pc = "returned"
    /\ msg.event = "on_message"
    /\ IsBangCommand(msg)

(***************************************************************************)
(* The command word of the asset lookup (src/openai/app.py 1804-1835,      *)
(* src/open-source/open-app.py 471-503).                                   *)
(***************************************************************************)
\* An asset link has been sent for the message being handled.
AssetLinkSent == pc # "idle" /\ "asset" \in Kinds(sent)

\* C30: an asset link is sent only for a message whose first character is
\* '!' and whose first word after it is a key of the asset map; a message
\* that does not start with '!' never gets an asset link.
C30_AssetLinksOnlyForBang ==
    AssetLinkSent =>
        /\ msg.content # <<>>
        /\ Head(msg.content) = "!"
        /\ local.image_name = Strip(Lower(CommandParts(msg.content)[1]))

\* What does hold: the link sent is the one of the first word that follows
\* the first character of the message, whatever that character is.
C30_AssetLinkOfSecondCharacterOn ==
    AssetLinkSent =>
        /\ Len(msg.content) >= 2
        /\ local.image_name
              = Strip(Lower(CommandParts(
                    ReplaceMentions(msg.content, msg.mentions, "display_name"))[1]))

(***************************************************************************)
(* The directory map of build_assets_map_s3 (src/openai/app.py 1277-1304,  *)
(* src/open-source/open-app.py 261-290).                                   *)
(***************************************************************************)
\* The extensions on_message takes for an image's (line 1570).
ImageSuffixes == { <<".", "j", "p", "g">>, <<".", "j", "p", "e", "g">>, <<".", "p", "n", "g">>, <<".", "g", "i", "f">>, <<".", "b", "m", "p">> }

\* The link refers to an object with the name of an image.
IsImageLink(link) == \E suffix \in ImageSuffixes : EndsWith(Lower(link), suffix)

\* No entry of the directory map is an empty list.
NoEmptyDirectory ==
    \A d \in DOMAIN assets.maps.dir_to_links :
        assets.maps.dir_to_links[d] # <<>>

\* Every link of the directory map refers to an image.
DirectoriesHoldImages ==
    \A d \in DOMAIN assets.maps.dir_to_links :
        \A i \in 1..Len(assets.maps.dir_to_links[d]) :
            IsImageLink(assets.maps.dir_to_links[d][i])

\* C26: for every listing, the directory map returned has no empty entry
\* and every link in it refers to an image: a directory that holds no image
\* (only its folder placeholder key, or keys that are not images) is absent.
C26_DirectoriesOfImagesOnly ==
    assets.pc = "done" => NoEmptyDirectory /\ DirectoriesHoldImages

\* The first half for both variants.
C26_NoEmptyDirectory == assets.pc = "done" => NoEmptyDirectory

\* The second half for the open-source variant, which skips the keys that
\* do not end in .png.
C26_OpenSourceDirectoriesHoldImages ==
    (assets.pc = "done" /\ assets.variant = "open-source")
        => DirectoriesHoldImages

(***************************************************************************)
(* Moderation before upload in generate_image of the open-source variant   *)
(* (src/open-source/open-app.py 83-134, 140-176, 409-417).                 *)
(***************************************************************************)
\* on_message of the open-source variant has gone through an image command.
OpenImageRan ==
    /\ pc \notin {"idle", "open_on_message", "open_image"}
    /\ msg.event = "open_on_message"
    /\ local.image_outcome # NoValue

\* check_if_safe_for_work returned True: the only outcomes that go past it.
ModerationSafe == local.image_outcome \in {"upload_fails", "url"}

\* check_if_safe_for_work returned False: flagged, or a status that is not 200.
ModerationUnsafe == local.image_outcome \in {"rejected", "moderation_bad_status"}

\* The upload comes after the moderation call, which comes after the image.
UploadAfterModeration ==
    \A i \in 1..Len(calls) :
        calls[i] = "s3_put" =>
            /\ ModerationSafe
            /\ \E j \in 1..(i - 1) : calls[j] = "moderate"

\* C29: generate_image of the open-source variant uploads and returns a URL
\* only after moderation returned safe; when moderation flags the image, or
\* its endpoint answers with a status other than 200, nothing is uploaded,
\* None is returned (the caller sends the censored notice) and no image URL
\* is sent.
C29_UploadOnlyAfterSafeModeration ==
    OpenImageRan =>
        /\ UploadAfterModeration
        /\ "image_url" \in Kinds(sent) => local.image_outcome = "url"
        /\ ModerationUnsafe =>
              /\ NumCalls("s3_put") = 0
              /\ "image_url" \notin Kinds(sent)
              /\ "censored" \in Kinds(sent)

\* An image command whose picture the moderation endpoint could not judge.
C29_Witness == OpenImageRan /\ local.image_outcome = "moderation_bad_status"

\* An image command whose picture was flagged.
C29_WitnessFlagged == OpenImageRan /\ local.image_outcome = "rejected"

(***************************************************************************)
(* The two queries of all_in_one_search in time (src/openai/app.py         *)
(* 179-189).                                                               *)
(***************************************************************************)
\* The helper has been called.
Started(name) == \E i \in 1..Len(search.started) : search.started[i] = name

\* The helper has returned or raised.
Over(name) == \E i \in 1..Len(search.order) : search.order[i] = name

\* C27: all_in_one_search queries the two providers concurrently: the
\* second query is started without waiting for the first, so by the time
\* the first is over the second has been started, and when the function
\* returns the two have been in flight at the same time.
C27_ProvidersQueriedConcurrently ==
    Over("duckduckgo") => Started("google")

\* What the function does: the queries are in flight one at a time, the
\* second called only when the first is over.
C27_OneQueryInFlight ==
    /\ Cardinality(search.in_flight) <= 1
    /\ Started("google") => Over("duckduckgo")

\* The second query in flight.
C27_SecondInFlight == search.in_flight = {"google"}

(***************************************************************************)
(* The initial response of the slash commands (src/openai/app.py 975-996,  *)
(* 1108-1195, 1201-1244).                                                  *)
(***************************************************************************)
\* One of the three commands is being handled, or has been.
InSlash == pc # "idle" /\ msg.event = "slash_command"

\* The responses to the interaction among the calls.
InitialResponses == {"defer", "send_message"}

\* An external network call: anything but a response to the interaction.
IsExternal(call) == call \notin InitialResponses \cup {"defer_raised"}

\* Every external call has an initial response before it.
AcknowledgedFirst ==
    \A i \in 1..Len(calls) :
        IsExternal(calls[i]) =>
            \E j \in 1..(i - 1) : calls[j] \in InitialResponses

\* The number of initial responses made.
NumInitialResponses ==
    Cardinality({i \in 1..Len(calls) : calls[i] \in InitialResponses})

\* What followup.send was given: everything sent but the send_message text.
Followups == SelectSeq(sent, LAMBDA e : e.kind # "input_error")

\* C24: every slash command acknowledges the interaction before its real
\* work: the initial response (defer, or send_message for an input error)
\* comes before any external network call, there is exactly one initial
\* response per interaction, and followup.send is used only after a defer
\* that succeeded.
C24_AcknowledgedBeforeWork ==
    InSlash =>
        /\ AcknowledgedFirst
        /\ NumInitialResponses <= 1
        /\ pc \in {"slash_work", "send_loop", "returned"} => NumInitialResponses = 1
        /\ Followups # <<>> => NumCalls("defer") = 1

\* What holds of the three commands: never two initial responses, and the
\* generating work (search, extraction, history, generation) only after a
\* defer that succeeded.
C24_OneResponseAndWorkAfterDefer ==
    InSlash =>
        /\ NumInitialResponses <= 1
        /\ \A i \in 1..Len(calls) :
              calls[i] \notin InitialResponses \cup {"defer_raised", "fetch_member"} =>
                  \E j \in 1..(i - 1) : calls[j] = "defer"

\* /web_search and /gotc acknowledge before any external call.
C24_SearchAndGotcAcknowledgeFirst ==
    InSlash /\ msg.command # "analyze_user" => AcknowledgedFirst

\* A command answered in parts after its defer.
C24_Answered ==
    InSlash /\ pc = "returned" /\ NumCalls("defer") = 1 /\ "reply" \in Kinds(sent)

(***************************************************************************)
(* Failures and the messages that follow (src/openai/app.py 1309-1835,     *)
(* src/legacy/app.py 239-284).  The handlers keep nothing between events:  *)
(* every name they assign is local.                                        *)
(***************************************************************************)
\* The handler of the last event has ended, with or without an exception.
HandlerOver == pc \in {"returned", "raised"}

\* A handler is at its first statement.
AtEntry ==
    pc \in {"on_message", "command", "slash", "open_on_message",
            "legacy_on_message"}

\* The handler starts from nothing: what it does depends on its event only.
FreshStart == local = InitLocal /\ sent = <<>> /\ calls = <<>>

C21_LaterMessageAnswered ==
    handled = 2 /\ pc = "returned" /\ msg.event = "on_message"
    /\ "reply" \in Kinds(sent)

=============================================================================
